---- MODULE Spec2Model ----
(***************************************************************************)
(* Work-order synchronisation between the Client system (JSON files) and   *)
(* the TracOS / CMMS store (MongoDB collection).                           *)
(*                                                                         *)
(*   Spec          the pipeline of main.py over TracosAdapter              *)
(*   SpecStore     the store adapters (TracosAdapter, CMMSAdapter) alone   *)
(*   SpecTranslate the translator's pure functions over bounded inputs     *)
(*   SpecConvert   both translators and their round trips                  *)
(*   SpecRetry     the two retry wrappers                                  *)
(*   SpecRun       the pipeline with store outages and defective records   *)
(*   SpecLive      the pipeline over one inbound file, started invocations *)
(*                 running to their end                                    *)
(*   SpecRead      read_unsynced_workorders over seeded collections        *)
(*   SpecMetrics   one process calling the pipeline again on its instance  *)
(*   SpecOutbound  the outbound pass over a store of dirty records, some   *)
(*                 of them untranslatable                                  *)
(*   SpecPeer      the pipeline beside a second instance's inbound pass    *)
(*   SpecConnection the store operations and close_connection              *)
(*                                                                         *)
(* JSON objects and Mongo documents are functions from field names to      *)
(* values, so that an absent field, $set (merge) and $unset are what they  *)
(* are in the code.                                                        *)
(***************************************************************************)
EXTENDS Integers, Sequences, FiniteSets, TLC

VARIABLES
    inbound,      \* inbound directory: file name -> JSON object, or NoFile
    outbound,     \* outbound directory: file name -> JSON object written
    collection,   \* the Mongo collection: a set of documents
    adapter,      \* which store adapter serves the store operations
    now,          \* the clock read by datetime.now(timezone.utc)
    pc,           \* position of the pipeline invocation
    files_data,   \* run_inbound_flow: records still to process
    workorders,   \* run_outbound_flow: workorders still to process
    ev,           \* history: what the last step did, and to which number
    writes,       \* history: successful file writes per number since its last upsert
    failed,       \* history: numbers whose last sink write reported failure
    runFault,     \* history: some record of this invocation was invalid or failed
    hist,         \* history: "repeat" when this invocation follows a fault-free one with no inbound change
    tin,          \* SpecTranslate: the input record
    tout,         \* SpecTranslate: the result of the function applied
    client,       \* the adapter's _client: "none" (None) or "open"
    reachable,    \* environment: whether the store answers at all
    returned,     \* what the last execute_full_pipeline returned to its caller
    metrics,      \* the counters of the IntegrationPipeline instance
    peer          \* a second instance's run_inbound_flow: records still to process

vars == <<inbound, outbound, collection, adapter, now, pc, files_data,
          workorders, ev, writes, failed, runFault, hist, tin, tout,
          client, reachable, returned, metrics, peer>>

----------------------------------------------------------------------------
(* Bounds *)

MaxOrderNo == 2
MaxFiles == 2
MaxRuns == 2

(* Program constants *)

max_attempts == 3

----------------------------------------------------------------------------
(* JSON objects / documents *)

Get(d, f, default) == IF f \in DOMAIN d THEN d[f] ELSE default

\* dict.update / $set: the fields of new replace or extend those of old
Merge(old, new) ==
    [f \in (DOMAIN old) \cup (DOMAIN new) |-> IF f \in DOMAIN new THEN new[f] ELSE old[f]]

\* $unset
Unset(d, fs) == [f \in (DOMAIN d) \ fs |-> d[f]]

Permutations_(S) ==
    {s \in [1..Cardinality(S) -> S] : \A i, j \in 1..Cardinality(S) : i # j => s[i] # s[j]}

Min(S) == CHOOSE x \in S : \A y \in S : x <= y

Ok(v) == [ok |-> TRUE, val |-> v]
Raise(e) == [ok |-> FALSE, err |-> e]

\* JSON null in a string-valued field
None == "<None>"

----------------------------------------------------------------------------
(* Dates.  An ISO string is its timestamp text and its offset suffix; a     *)
(* datetime is an instant and a tzinfo.                                     *)

Instants == {<<"lit", 1>>, <<"lit", 2>>}
BadText == <<"bad", 0>>
Offsets == {"Z", "+00:00", ""}

IsoString(text, off) == [text |-> text, off |-> off]

\* datetime.now(timezone.utc)
utcnow(k) == [inst |-> <<"now", k>>, tz |-> "utc"]

\* _parse_datetime_safe: 'Z' becomes '+00:00', then datetime.fromisoformat
parse_datetime_safe(s) ==
    LET normalized == IF s.off = "Z" THEN [s EXCEPT !.off = "+00:00"] ELSE s
    IN  IF normalized.text \notin Instants
        THEN Raise("ValueError")
        ELSE Ok([inst |-> normalized.text,
                 tz |-> IF normalized.off = "" THEN "naive" ELSE "utc"])

\* An optional date (a date or JSON null / Python None): <<d>> or <<>>
NoDate == <<>>

\* the value is a datetime object, not a text
IsDatetime(v) == DOMAIN v = {"inst", "tz"}

\* datetime.isoformat()
isoformat(dt) == IsoString(dt.inst, IF dt.tz = "utc" THEN "+00:00" ELSE "")

----------------------------------------------------------------------------
(* translator.py (TracOS variant) *)

VALID_TRACOS_STATUS == {"pending", "in_progress", "completed", "on_hold", "cancelled"}

PriorityMapWithDeleted ==
    << <<"isDeleted", "deleted">>,
       <<"isDone", "completed">>,
       <<"isCanceled", "cancelled">>,
       <<"isOnHold", "on_hold">>,
       <<"isActive", "in_progress">>,
       <<"isPending", "pending">> >>

STATUS_PRIORITY_MAP ==
    << <<"isDone", "completed">>,
       <<"isCanceled", "cancelled">>,
       <<"isOnHold", "on_hold">>,
       <<"isActive", "in_progress">>,
       <<"isPending", "pending">> >>

\* client_data.get(flag, False) as a condition
Truthy(d, f) == f \in DOMAIN d /\ d[f] = TRUE

DefaultStatusInProgress == "in_progress"

DEFAULT_TRACOS_STATUS == "pending"

ReversedPriorityStatus(client_data) ==
    LET hits == {i \in 1..Len(STATUS_PRIORITY_MAP) :
                    Truthy(client_data, STATUS_PRIORITY_MAP[i][1])}
    IN  IF hits = {} THEN DEFAULT_TRACOS_STATUS
        ELSE STATUS_PRIORITY_MAP[CHOOSE i \in hits : \A j \in hits : j <= i][2]

determine_tracos_status(client_data) ==
    LET hits == {i \in 1..Len(STATUS_PRIORITY_MAP) :
                    Truthy(client_data, STATUS_PRIORITY_MAP[i][1])}
    IN  IF hits = {} THEN DEFAULT_TRACOS_STATUS
        ELSE STATUS_PRIORITY_MAP[Min(hits)][2]

validate_required_fields(data, required_fields) ==
    \A f \in required_fields : f \in DOMAIN data

CLIENT_REQUIRED == {"orderNo", "summary", "creationDate"}
TRACOS_REQUIRED == {"number", "title", "status", "createdAt", "updatedAt"}

ClientToTracosFlagAsStatus(client_data) ==
    IF ~validate_required_fields(client_data, CLIENT_REQUIRED) THEN Raise("KeyError")
    ELSE
    LET hits == {i \in 1..Len(STATUS_PRIORITY_MAP) :
                    Truthy(client_data, STATUS_PRIORITY_MAP[i][1])}
        status == IF hits = {} THEN DEFAULT_TRACOS_STATUS
                  ELSE STATUS_PRIORITY_MAP[Min(hits)][1]
        created_at == parse_datetime_safe(client_data["creationDate"])
        updated_at == parse_datetime_safe(
                          Get(client_data, "lastUpdateDate", client_data["creationDate"]))
    IN  IF ~created_at.ok \/ ~updated_at.ok THEN Raise("ValueError")
        ELSE Ok([number |-> client_data["orderNo"],
                 title |-> client_data["summary"],
                 status |-> status,
                 description |-> <<client_data["summary"], " description">>,
                 createdAt |-> created_at.val,
                 updatedAt |-> updated_at.val,
                 deleted |-> Get(client_data, "isDeleted", FALSE)])

ClientToTracosDateAlone(client_data) ==
    IF ~validate_required_fields(client_data, CLIENT_REQUIRED) THEN Raise("KeyError")
    ELSE
    LET status == determine_tracos_status(client_data)
        created_at == parse_datetime_safe(client_data["creationDate"])
        updated_at == parse_datetime_safe(
                          Get(client_data, "lastUpdateDate", client_data["creationDate"]))
        with_deleted_at == "deletedDate" \in DOMAIN client_data
                           /\ client_data["deletedDate"] # NoDate
        deleted_at == parse_datetime_safe(client_data["deletedDate"][1])
    IN  IF status \notin VALID_TRACOS_STATUS THEN Raise("ValueError")
        ELSE IF ~created_at.ok \/ ~updated_at.ok THEN Raise("ValueError")
        ELSE
        LET tracos_data ==
                [number |-> client_data["orderNo"],
                 title |-> client_data["summary"],
                 status |-> status,
                 description |-> <<client_data["summary"], " description">>,
                 createdAt |-> created_at.val,
                 updatedAt |-> updated_at.val,
                 deleted |-> Get(client_data, "isDeleted", FALSE)]
        IN  IF ~with_deleted_at THEN Ok(tracos_data)
            ELSE IF ~deleted_at.ok THEN Raise("ValueError")
            ELSE Ok(Merge(tracos_data, [deletedAt |-> deleted_at.val]))

client_to_tracos(client_data) ==
    IF ~validate_required_fields(client_data, CLIENT_REQUIRED) THEN Raise("KeyError")
    ELSE
    LET status == determine_tracos_status(client_data)
        created_at == parse_datetime_safe(client_data["creationDate"])
        updated_at == parse_datetime_safe(
                          Get(client_data, "lastUpdateDate", client_data["creationDate"]))
        with_deleted_at == Truthy(client_data, "isDeleted")
                           /\ "deletedDate" \in DOMAIN client_data
                           /\ client_data["deletedDate"] # NoDate
        deleted_at == parse_datetime_safe(client_data["deletedDate"][1])
    IN  IF status \notin VALID_TRACOS_STATUS THEN Raise("ValueError")
        ELSE IF ~created_at.ok \/ ~updated_at.ok THEN Raise("ValueError")
        ELSE
        LET tracos_data ==
                [number |-> client_data["orderNo"],
                 title |-> client_data["summary"],
                 status |-> status,
                 description |-> <<client_data["summary"], " description">>,
                 createdAt |-> created_at.val,
                 updatedAt |-> updated_at.val,
                 deleted |-> Get(client_data, "isDeleted", FALSE)]
        IN  IF ~with_deleted_at THEN Ok(tracos_data)
            ELSE IF ~deleted_at.ok THEN Raise("ValueError")
            ELSE Ok(Merge(tracos_data, [deletedAt |-> deleted_at.val]))

TracosToClientUnchecked(tracos_data) ==
    IF ~validate_required_fields(tracos_data, TRACOS_REQUIRED) THEN Raise("KeyError")
    ELSE Ok([orderNo |-> tracos_data["number"],
             summary |-> tracos_data["title"],
             creationDate |-> isoformat(tracos_data["createdAt"]),
             lastUpdateDate |-> isoformat(tracos_data["updatedAt"]),
             isDeleted |-> Get(tracos_data, "deleted", FALSE),
             deletedDate |-> IF "deletedAt" \in DOMAIN tracos_data
                             THEN <<isoformat(tracos_data["deletedAt"])>>
                             ELSE NoDate,
             isDone |-> tracos_data["status"] = "completed",
             isCanceled |-> tracos_data["status"] = "cancelled",
             isOnHold |-> tracos_data["status"] = "on_hold",
             isPending |-> tracos_data["status"] = "pending",
             isActive |-> tracos_data["status"] = "in_progress"])

TracosClientDataPendingElse(tracos_data) ==
    LET status == tracos_data["status"]
    IN  [orderNo |-> tracos_data["number"],
         summary |-> tracos_data["title"],
         creationDate |-> isoformat(tracos_data["createdAt"]),
         lastUpdateDate |-> isoformat(tracos_data["updatedAt"]),
         isDeleted |-> Get(tracos_data, "deleted", FALSE),
         deletedDate |-> IF "deletedAt" \in DOMAIN tracos_data
                         THEN <<isoformat(tracos_data["deletedAt"])>>
                         ELSE NoDate,
         isDone |-> status = "completed",
         isCanceled |-> status = "cancelled",
         isOnHold |-> status = "on_hold",
         isPending |-> status \notin {"completed", "cancelled", "on_hold"},
         isActive |-> status = "in_progress"]

\* the client record tracos_to_client builds from a validated TracOS record
tracos_client_data(tracos_data) ==
    LET status == tracos_data["status"]
    IN  [orderNo |-> tracos_data["number"],
         summary |-> tracos_data["title"],
         creationDate |-> isoformat(tracos_data["createdAt"]),
         lastUpdateDate |-> isoformat(tracos_data["updatedAt"]),
         isDeleted |-> Get(tracos_data, "deleted", FALSE),
         deletedDate |-> IF "deletedAt" \in DOMAIN tracos_data
                         THEN <<isoformat(tracos_data["deletedAt"])>>
                         ELSE NoDate,
         isDone |-> status = "completed",
         isCanceled |-> status = "cancelled",
         isOnHold |-> status = "on_hold",
         isPending |-> status = "pending",
         isActive |-> status = "in_progress"]

TracosToClientStatusFirst(tracos_data) ==
    IF "status" \in DOMAIN tracos_data /\ tracos_data["status"] \notin VALID_TRACOS_STATUS
    THEN Raise("ValueError")
    ELSE IF ~validate_required_fields(tracos_data, TRACOS_REQUIRED) THEN Raise("KeyError")
    ELSE Ok(tracos_client_data(tracos_data))

TracosToClientAnyStatus(tracos_data) ==
    IF ~validate_required_fields(tracos_data, TRACOS_REQUIRED) THEN Raise("KeyError")
    ELSE IF ~IsDatetime(tracos_data["createdAt"]) \/ ~IsDatetime(tracos_data["updatedAt"])
         THEN Raise("ValueError")
    ELSE Ok(tracos_client_data(tracos_data))

\* a createdAt or updatedAt that is not a datetime has no isoformat: the
\* AttributeError is raised again as a ValueError
tracos_to_client(tracos_data) ==
    IF ~validate_required_fields(tracos_data, TRACOS_REQUIRED) THEN Raise("KeyError")
    ELSE IF tracos_data["status"] \notin VALID_TRACOS_STATUS THEN Raise("ValueError")
    ELSE IF ~IsDatetime(tracos_data["createdAt"]) \/ ~IsDatetime(tracos_data["updatedAt"])
         THEN Raise("ValueError")
    ELSE Ok(tracos_client_data(tracos_data))

----------------------------------------------------------------------------
(* cmms_erp_integration translator.py (CMMS variant) *)

VALID_CMMS_STATUS ==
    {"pending", "in_progress", "completed", "on_hold", "cancelled", "deleted"}

CLIENT_TO_CMMS_STATUS_MAP ==
    << <<"isDeleted", "deleted">>,
       <<"isDone", "completed">>,
       <<"isCanceled", "cancelled">>,
       <<"isOnHold", "on_hold">>,
       <<"isPending", "pending">> >>

DEFAULT_CMMS_STATUS == "in_progress"

CmmsStatusDeletedLast(client_data) ==
    LET order == <<2, 3, 4, 5, 1>>
        hits == {i \in 1..Len(order) :
                    Truthy(client_data, CLIENT_TO_CMMS_STATUS_MAP[order[i]][1])}
    IN  IF hits = {} THEN DEFAULT_CMMS_STATUS
        ELSE CLIENT_TO_CMMS_STATUS_MAP[order[Min(hits)]][2]

determine_cmms_status(client_data) ==
    LET hits == {i \in 1..Len(CLIENT_TO_CMMS_STATUS_MAP) :
                    Truthy(client_data, CLIENT_TO_CMMS_STATUS_MAP[i][1])}
    IN  IF hits = {} THEN DEFAULT_CMMS_STATUS
        ELSE CLIENT_TO_CMMS_STATUS_MAP[Min(hits)][2]

convert_client_to_cmms(client_data) ==
    IF ~validate_required_fields(client_data, CLIENT_REQUIRED) THEN Raise("KeyError")
    ELSE
    LET status == determine_cmms_status(client_data)
        created_at == parse_datetime_safe(client_data["creationDate"])
        updated_at == parse_datetime_safe(
                          Get(client_data, "lastUpdateDate", client_data["creationDate"]))
        with_deleted_at == Truthy(client_data, "isDeleted")
                           /\ "deletedDate" \in DOMAIN client_data
                           /\ client_data["deletedDate"] # NoDate
        deleted_at == parse_datetime_safe(client_data["deletedDate"][1])
    IN  IF status \notin VALID_CMMS_STATUS THEN Raise("ValueError")
        ELSE IF ~created_at.ok \/ ~updated_at.ok THEN Raise("ValueError")
        ELSE
        LET cmms_data ==
                [number |-> client_data["orderNo"],
                 title |-> client_data["summary"],
                 status |-> status,
                 description |-> <<client_data["summary"], " description">>,
                 createdAt |-> created_at.val,
                 updatedAt |-> updated_at.val,
                 deleted |-> Get(client_data, "isDeleted", FALSE)]
        IN  IF ~with_deleted_at THEN Ok(cmms_data)
            ELSE IF ~deleted_at.ok THEN Raise("ValueError")
            ELSE Ok(Merge(cmms_data, [deletedAt |-> deleted_at.val]))

\* a datetime without tzinfo is taken as UTC before isoformat()
as_utc(dt) == [dt EXCEPT !.tz = "utc"]

CmmsClientDataMisspelt(cmms_data) ==
    LET status == cmms_data["status"]
    IN  [orderNo |-> cmms_data["number"],
         summary |-> cmms_data["title"],
         creationDate |-> isoformat(as_utc(cmms_data["createdAt"])),
         lastUpdateDate |-> isoformat(as_utc(cmms_data["updatedAt"])),
         deletedDate |-> IF "deletedAt" \in DOMAIN cmms_data
                         THEN <<isoformat(cmms_data["deletedAt"])>>
                         ELSE NoDate,
         isDone |-> status = "completed",
         isCanceled |-> status = "canceled",
         isOnHold |-> status = "on_hold",
         isPending |-> status = "pending",
         isDeleted |-> status = "deleted"]

\* the client record convert_cmms_to_client builds from a validated CMMS record
cmms_client_data(cmms_data) ==
    LET status == cmms_data["status"]
    IN  [orderNo |-> cmms_data["number"],
         summary |-> cmms_data["title"],
         creationDate |-> isoformat(as_utc(cmms_data["createdAt"])),
         lastUpdateDate |-> isoformat(as_utc(cmms_data["updatedAt"])),
         deletedDate |-> IF "deletedAt" \in DOMAIN cmms_data
                         THEN <<isoformat(cmms_data["deletedAt"])>>
                         ELSE NoDate,
         isDone |-> status = "completed",
         isCanceled |-> status = "cancelled",
         isOnHold |-> status = "on_hold",
         isPending |-> status = "pending",
         isDeleted |-> status = "deleted"]

convert_cmms_to_client(cmms_data) ==
    IF ~validate_required_fields(cmms_data, TRACOS_REQUIRED) THEN Raise("KeyError")
    ELSE IF cmms_data["status"] \notin VALID_CMMS_STATUS THEN Raise("ValueError")
    ELSE Ok(cmms_client_data(cmms_data))

----------------------------------------------------------------------------
(* client_adapter.py *)

\* JSON null in an integer-valued and in a date-valued field
NoneNumber == -1
NoneDate == [text |-> <<"null", 0>>, off |-> ""]

NullOf(f) ==
    CASE f = "orderNo" -> NoneNumber
      [] f = "creationDate" -> NoneDate
      [] OTHER -> None

ValidateIgnoringNull(data) ==
    \A f \in CLIENT_REQUIRED : f \in DOMAIN data

\* validate_client_data: every required field present and not None
validate_client_data(data) ==
    \A f \in CLIENT_REQUIRED : f \in DOMAIN data /\ data[f] # NullOf(f)

\* the name under which _process_single_outbound_workorder writes a workorder
Filename(number) == <<"workorder_", number, ".json">>

----------------------------------------------------------------------------
(* The store: the retry wrapper and the adapters' operations.  Each        *)
(* operation maps a collection to [coll |-> collection after, ret |-> the  *)
(* value returned, raised |-> the exception that escapes it, if any].      *)

AttemptOutcomes == {"ok", "transient", "permanent"}
AttemptSeqs == [1..max_attempts -> AttemptOutcomes]

\* _retry_mongo_operation / retry_mongo_operation over the outcomes the
\* attempts would have: the result and the number of invocations made
RECURSIVE RetryOnceMore(_, _)
RetryOnceMore(outcomes, attempt) ==
    IF outcomes[attempt + 1] = "ok" THEN [result |-> "ok", calls |-> attempt + 1]
    ELSE IF outcomes[attempt + 1] = "transient" /\ attempt < max_attempts
         THEN RetryOnceMore(outcomes, attempt + 1)
    ELSE [result |-> "raise", calls |-> attempt + 1]

RECURSIVE retry_from(_, _)
retry_from(outcomes, attempt) ==
    IF outcomes[attempt + 1] = "ok" THEN [result |-> "ok", calls |-> attempt + 1]
    ELSE IF outcomes[attempt + 1] = "transient" /\ attempt < max_attempts - 1
         THEN retry_from(outcomes, attempt + 1)
    ELSE [result |-> "raise", calls |-> attempt + 1]

retry_mongo_operation(outcomes) == retry_from(outcomes, 0)

\* MongoService.retry_mongo_operation (the wrapper CMMSAdapter uses)
RECURSIVE RetryPermanentToo(_, _)
RetryPermanentToo(outcomes, attempt) ==
    IF outcomes[attempt + 1] = "ok" THEN [result |-> "ok", calls |-> attempt + 1]
    ELSE IF attempt < max_attempts - 1
         THEN RetryPermanentToo(outcomes, attempt + 1)
    ELSE [result |-> "raise", calls |-> attempt + 1]

RECURSIVE mongo_service_retry_from(_, _)
mongo_service_retry_from(outcomes, attempt) ==
    IF outcomes[attempt + 1] = "ok" THEN [result |-> "ok", calls |-> attempt + 1]
    ELSE IF outcomes[attempt + 1] = "transient"
         THEN IF attempt < max_attempts - 1
              THEN mongo_service_retry_from(outcomes, attempt + 1)
              ELSE [result |-> "raise", calls |-> attempt + 1]
    ELSE [result |-> "raise", calls |-> attempt + 1]

mongo_service_retry_mongo_operation(outcomes) == mongo_service_retry_from(outcomes, 0)

\* one sequence of attempt outcomes for each distinct course of the wrapper
Courses ==
    {o \in AttemptSeqs :
        \A i \in 1..max_attempts :
            i > retry_mongo_operation(o).calls => o[i] = "ok"}

\* the courses an operation can take: any while the store answers, and a
\* connectivity error (ServerSelectionTimeoutError) on every attempt while
\* it does not
StoreCourses ==
    IF reachable THEN Courses ELSE {[i \in 1..max_attempts |-> "transient"]}

\* TracosAdapter.get_client: the client is created on first use and reused
get_client(c) == IF c = "none" THEN "open" ELSE c

\* TracosAdapter.close_connection; AsyncIOMotorClient.close() returns
\* (closes) or raises, and _client is reset only after it returned
close_connection(c, closes) ==
    IF c = "none" THEN [client |-> c, raised |-> FALSE]
    ELSE IF closes THEN [client |-> "none", raised |-> FALSE]
    ELSE [client |-> c, raised |-> TRUE]

\* BSON keeps the instant of a datetime; the client is opened without
\* tz_aware, so what is read back has no tzinfo
DATE_FIELDS == {"createdAt", "updatedAt", "deletedAt", "syncedAt"}
Bson(doc) ==
    [f \in DOMAIN doc |->
        IF f \in DATE_FIELDS THEN [inst |-> doc[f].inst, tz |-> "naive"] ELSE doc[f]]

Matching(coll, number) == {d \in coll : "number" \in DOMAIN d /\ d["number"] = number}

InsertOne(coll, number, set, unset, upsert) ==
    [coll |-> IF upsert \/ Matching(coll, number) # {}
              THEN coll \cup {Unset(Bson(Merge([number |-> number], set)), unset)}
              ELSE coll,
     modified_count |-> 0]

\* update_one(filter, {"$set": set, "$unset": unset}, upsert=...)
update_one(coll, number, set, unset, upsert) ==
    IF Matching(coll, number) = {}
    THEN [coll |-> IF upsert THEN coll \cup {Unset(Bson(Merge([number |-> number], set)), unset)}
                   ELSE coll,
          modified_count |-> 0]
    ELSE LET d == CHOOSE x \in Matching(coll, number) : TRUE
             e == Unset(Merge(d, Bson(set)), unset)
         IN  [coll |-> (coll \ {d}) \cup {e},
              modified_count |-> IF e = d THEN 0 ELSE 1]

UpsertKeepingSynced(workorder_data, k) ==
    Merge(workorder_data, [updatedAt |-> utcnow(k)])

\* the control fields upsert_workorder adds to its copy of the record
upsert_copy(workorder_data, k) ==
    Merge(workorder_data, [isSynced |-> FALSE, updatedAt |-> utcnow(k)])

UpsertNumberOrNone(coll, workorder_data, k, outcomes) ==
    IF retry_mongo_operation(outcomes).result # "ok"
    THEN [coll |-> coll, ret |-> FALSE, raised |-> "none",
          calls |-> retry_mongo_operation(outcomes).calls]
    ELSE [coll |-> update_one(coll, Get(workorder_data, "number", 0),
                              upsert_copy(workorder_data, k), {}, TRUE).coll,
          ret |-> TRUE, raised |-> "none",
          calls |-> retry_mongo_operation(outcomes).calls]

\* TracosAdapter.upsert_workorder: the collection after, the value returned,
\* the exception that escapes, and the invocations of _upsert_operation.
\* workorder_data["number"] is read inside _upsert_operation before any
\* store I/O; the KeyError is no PyMongoError, so neither the wrapper nor
\* upsert_workorder catches it.
tracos_upsert_workorder(coll, workorder_data, k, outcomes) ==
    IF "number" \notin DOMAIN workorder_data
    THEN [coll |-> coll, ret |-> FALSE, raised |-> "KeyError", calls |-> 1]
    ELSE IF retry_mongo_operation(outcomes).result # "ok"
    THEN [coll |-> coll, ret |-> FALSE, raised |-> "none",
          calls |-> retry_mongo_operation(outcomes).calls]
    ELSE [coll |-> update_one(coll, workorder_data["number"],
                              upsert_copy(workorder_data, k), {}, TRUE).coll,
          ret |-> TRUE, raised |-> "none",
          calls |-> retry_mongo_operation(outcomes).calls]

\* CMMSAdapter.upsert_workorder
cmms_upsert_workorder(coll, workorder_data, k, outcomes) ==
    IF "number" \notin DOMAIN workorder_data
    THEN [coll |-> coll, ret |-> FALSE, raised |-> "KeyError", calls |-> 1]
    ELSE IF mongo_service_retry_mongo_operation(outcomes).result # "ok"
    THEN [coll |-> coll, ret |-> FALSE, raised |-> "none",
          calls |-> mongo_service_retry_mongo_operation(outcomes).calls]
    ELSE [coll |-> update_one(coll, workorder_data["number"],
                              upsert_copy(workorder_data, k), {"syncedAt"}, TRUE).coll,
          ret |-> TRUE, raised |-> "none",
          calls |-> mongo_service_retry_mongo_operation(outcomes).calls]

MarkAndPurge(coll, number, k, outcomes) ==
    IF retry_mongo_operation(outcomes).result # "ok" THEN [coll |-> coll, ret |-> FALSE]
    ELSE [coll |-> coll \ Matching(coll, number), ret |-> Matching(coll, number) # {}]

\* TracosAdapter.mark_as_synced / CMMSAdapter.mark_workorder_as_synced
mark_as_synced(coll, number, k, outcomes) ==
    IF retry_mongo_operation(outcomes).result # "ok" THEN [coll |-> coll, ret |-> FALSE]
    ELSE LET result == update_one(coll, number,
                                  [isSynced |-> TRUE, syncedAt |-> utcnow(k)], {}, FALSE)
         IN  [coll |-> result.coll, ret |-> result.modified_count > 0]

UnsyncedFalseOnly(coll) == {d \in coll : "isSynced" \in DOMAIN d /\ d["isSynced"] = FALSE}

\* find({"isSynced": {"$ne": True}})
Unsynced(coll) == {d \in coll : ~("isSynced" \in DOMAIN d /\ d["isSynced"] = TRUE)}

IsSorted(list) ==
    \A i, j \in 1..Len(list) : i < j => list[i]["number"] <= list[j]["number"]

ReadDespiteFailure(coll, outcomes) == Permutations_(Unsynced(coll))

\* TracosAdapter.read_unsynced_workorders: the cursor has no sort, so the
\* documents come in the store's natural order, which Mongo does not specify
tracos_read_unsynced_workorders(coll, outcomes) ==
    IF retry_mongo_operation(outcomes).result # "ok" THEN {<<>>}
    ELSE Permutations_(Unsynced(coll))

\* CMMSAdapter.read_unsynced_workorders: .sort([("number", 1)])
cmms_read_unsynced_workorders(coll, outcomes) ==
    IF mongo_service_retry_mongo_operation(outcomes).result # "ok" THEN {<<>>}
    ELSE {list \in Permutations_(Unsynced(coll)) : IsSorted(list)}

upsert_workorder(coll, workorder_data, k, outcomes) ==
    IF adapter = "cmms" THEN cmms_upsert_workorder(coll, workorder_data, k, outcomes)
    ELSE tracos_upsert_workorder(coll, workorder_data, k, outcomes)

read_unsynced_workorders(coll, outcomes) ==
    IF adapter = "cmms" THEN cmms_read_unsynced_workorders(coll, outcomes)
    ELSE tracos_read_unsynced_workorders(coll, outcomes)

----------------------------------------------------------------------------
(* The inbound files the Client system produces *)

OrderNos == 1..MaxOrderNo
FileNames == 1..MaxFiles

DateZ == IsoString(<<"lit", 1>>, "Z")
DateBad == IsoString(BadText, "")

BaseRecord(n) ==
    [orderNo |-> n, summary |-> "workorder", creationDate |-> DateZ,
     lastUpdateDate |-> DateZ, isDone |-> FALSE, isCanceled |-> FALSE,
     isOnHold |-> FALSE, isPending |-> FALSE, isDeleted |-> FALSE,
     deletedDate |-> NoDate]

ClientRecord(n, variant) ==
    CASE variant = "none" -> BaseRecord(n)
      [] variant = "done" -> [BaseRecord(n) EXCEPT !["isDone"] = TRUE]
      [] variant = "nosummary" -> Unset(BaseRecord(n), {"summary"})
      [] variant = "baddate" -> [BaseRecord(n) EXCEPT !["creationDate"] = DateBad]
      [] variant = "deleted" -> [BaseRecord(n) EXCEPT !["isDeleted"] = TRUE,
                                                      !["deletedDate"] = <<DateZ>>]
      [] variant = "noorder" -> Unset(BaseRecord(n), {"orderNo"})
      [] variant = "nocreation" -> Unset(BaseRecord(n), {"creationDate"})
      [] variant = "nullorder" -> [BaseRecord(n) EXCEPT !["orderNo"] = NullOf("orderNo")]
      [] variant = "nullsummary" -> [BaseRecord(n) EXCEPT !["summary"] = NullOf("summary")]
      [] variant = "nullcreation" ->
             [BaseRecord(n) EXCEPT !["creationDate"] = NullOf("creationDate")]

ValidVariants == {"none", "done"}
InvalidVariants == {"nosummary", "baddate"}

\* the valid records of every order number, and the records that fail
\* validation or translation (which never reach the store) of order number 1
InboundRecords ==
    {ClientRecord(n, v) : n \in OrderNos, v \in ValidVariants}
        \cup {ClientRecord(1, v) : v \in InvalidVariants}

AllFlagsFalse(r) ==
    \A f \in {"isDone", "isCanceled", "isOnHold", "isActive", "isPending"} : ~Truthy(r, f)

----------------------------------------------------------------------------
(* main.py: IntegrationPipeline *)

Event(kind, number) == [kind |-> kind, number |-> number]

Cap(n) == IF n > 2 THEN 2 ELSE n

IsSynced(coll, n) == \E d \in Matching(coll, n) : "isSynced" \in DOMAIN d /\ d["isSynced"] = TRUE

NoTranslate == UNCHANGED <<tin, tout>>

\* no execute_full_pipeline has returned yet, or one is under way
NoResult == <<>>

\* _cleanup_resources: close_connection, an exception of which is logged
\* and dropped
cleanup_resources(c, closes) == close_connection(c, closes).client

\* PipelineMetrics: the counters of a new IntegrationPipeline
ZeroMetrics ==
    [inbound_files_read |-> 0, inbound_files_valid |-> 0, inbound_converted |-> 0,
     inbound_saved |-> 0, inbound_errors |-> 0,
     outbound_workorders_read |-> 0, outbound_converted |-> 0, outbound_saved |-> 0,
     outbound_synced |-> 0, outbound_errors |-> 0]

\* counter += 1 when the statement is reached
Count(m, counter, reached) == IF reached THEN [m EXCEPT ![counter] = @ + 1] ELSE m

\* The Client system writes or replaces an inbound file between invocations
ClientWritesFile(f, r) ==
    /\ pc = "idle"
    /\ Get(inbound, f, <<>>) # r
    /\ inbound' = Merge(inbound, [x \in {f} |-> r])
    /\ hist' = "fresh"
    /\ ev' = Event("client_write", 0)
    /\ UNCHANGED <<outbound, collection, adapter, now, pc, files_data, workorders,
                   writes, failed, runFault>>
    /\ UNCHANGED <<client, reachable, peer, returned, metrics>>
    /\ NoTranslate

\* execute_full_pipeline up to the loop of run_inbound_flow, on an instance
\* whose counters are m: read_inbound_files
Start(m) ==
    /\ pc = "idle"
    /\ now < MaxRuns
    /\ now' = now + 1
    /\ \E order \in Permutations_(DOMAIN inbound) :
          files_data' = [i \in 1..Len(order) |-> inbound[order[i]]]
    /\ pc' = IF DOMAIN inbound = {} THEN "outread" ELSE "inbound"
    /\ runFault' = FALSE
    /\ hist' = IF hist = "settled" THEN "repeat" ELSE "fresh"
    /\ ev' = Event("start", 0)
    /\ returned' = NoResult
    /\ metrics' = [m EXCEPT !.inbound_files_read = Len(files_data')]
    /\ UNCHANGED <<client, reachable, peer, inbound, outbound, collection, adapter,
                   workorders, writes, failed>>
    /\ NoTranslate

\* python main.py: the module is loaded, the global IntegrationPipeline is
\* constructed and main() runs execute_full_pipeline on it
StartRun == Start(ZeroMetrics)

AbortOnFailure(ok, rest) == IF ok THEN rest ELSE <<>>

\* what is left of a pass's list after one record: the loop goes on whatever
\* the record's outcome was
Remaining(ok, rest) == rest

\* _process_single_inbound_file on the next record of the list
InboundStep ==
    /\ pc = "inbound"
    /\ LET client_data == Head(files_data)
           translated == client_to_tracos(client_data)
       IN  \E outcomes \in StoreCourses :
           LET valid == validate_client_data(client_data)
               saved == upsert_workorder(collection, translated.val, now, outcomes)
               success == valid /\ translated.ok /\ saved.ret
               rest == Remaining(success, Tail(files_data))
               n == IF valid THEN client_data["orderNo"] ELSE 0
           IN  /\ collection' = IF valid /\ translated.ok THEN saved.coll ELSE collection
               /\ ev' = Event(IF ~valid THEN "invalid"
                              ELSE IF ~translated.ok \/ saved.raised # "none"
                                   THEN "inbound_error"
                              ELSE IF saved.ret THEN "upsert_ok"
                              ELSE "upsert_fail", n)
               /\ writes' = IF success THEN [writes EXCEPT ![n] = 0] ELSE writes
               /\ runFault' = (runFault \/ ~success)
               /\ files_data' = rest
               /\ pc' = IF rest = <<>> THEN "outread" ELSE "inbound"
               /\ client' = IF valid /\ translated.ok THEN get_client(client) ELSE client
               /\ metrics' =
                     Count(Count(Count(Count(metrics,
                         "inbound_files_valid", valid),
                         "inbound_converted", valid /\ translated.ok),
                         "inbound_saved", success),
                         "inbound_errors",
                         valid /\ (~translated.ok \/ saved.raised # "none"))
    /\ UNCHANGED <<reachable, peer, returned, inbound, outbound, adapter, now,
                   workorders, failed, hist>>
    /\ NoTranslate

\* run_outbound_flow up to its loop: read_unsynced_workorders
OutboundRead ==
    /\ pc = "outread"
    /\ \E outcomes \in StoreCourses :
          /\ workorders' \in read_unsynced_workorders(collection, outcomes)
          /\ ev' = Event(IF retry_mongo_operation(outcomes).result = "ok"
                         THEN "read_ok" ELSE "read_fail", 0)
          /\ runFault' = (runFault \/ retry_mongo_operation(outcomes).result # "ok")
    /\ pc' = IF workorders' = <<>> THEN "done" ELSE "outbound"
    /\ client' = get_client(client)
    /\ metrics' = [metrics EXCEPT !.outbound_workorders_read = Len(workorders')]
    /\ UNCHANGED <<reachable, peer, returned, inbound, outbound, collection, adapter,
                   now, files_data, writes, failed, hist>>
    /\ NoTranslate

\* tracos_data.get('number', 'N/A'): what stands for a missing number
NA == 0

MarkDespiteFailure(success) == "mark"

\* where _process_single_outbound_workorder goes after write_outbound_file
AfterWrite(success) == IF success THEN "mark" ELSE "next"

\* _process_single_outbound_workorder up to its await: tracos_to_client and
\* write_outbound_file
OutboundWrite ==
    /\ pc = "outbound"
    /\ LET tracos_data == Head(workorders)
           workorder_number == Get(tracos_data, "number", NA)
           client_data == tracos_to_client(tracos_data)
       IN  \E success \in BOOLEAN :
           LET written == client_data.ok /\ success
               goes == IF client_data.ok THEN AfterWrite(success) ELSE "next"
               rest == Remaining(written, Tail(workorders))
           IN  /\ outbound' = IF written
                              THEN Merge(outbound,
                                         [x \in {Filename(workorder_number)} |-> client_data.val])
                              ELSE outbound
               /\ ev' = Event(IF ~client_data.ok THEN "outbound_error"
                              ELSE IF success THEN "write_ok" ELSE "write_fail",
                              workorder_number)
               /\ writes' = IF written /\ workorder_number \in OrderNos
                            THEN [writes EXCEPT ![workorder_number] = Cap(@ + 1)]
                            ELSE writes
               /\ failed' = IF ~client_data.ok THEN failed
                            ELSE IF success THEN failed \ {workorder_number}
                            ELSE failed \cup {workorder_number}
               /\ runFault' = (runFault \/ ~written)
               /\ metrics' =
                     Count(Count(Count(metrics,
                         "outbound_converted", client_data.ok),
                         "outbound_saved", written),
                         "outbound_errors", ~client_data.ok)
               /\ IF goes = "mark"
                  THEN pc' = "mark" /\ workorders' = workorders
                  ELSE /\ workorders' = rest
                       /\ pc' = IF rest = <<>> THEN "done" ELSE "outbound"
    /\ UNCHANGED <<client, reachable, peer, returned, inbound, collection, adapter, now,
                   files_data, hist>>
    /\ NoTranslate

\* the rest of _process_single_outbound_workorder: mark_as_synced
OutboundMark ==
    /\ pc = "mark"
    /\ LET workorder_number == Get(Head(workorders), "number", NA)
       IN  \E outcomes \in StoreCourses :
           LET marked == mark_as_synced(collection, workorder_number, now, outcomes)
               rest == Remaining(marked.ret, Tail(workorders))
           IN  /\ collection' = marked.coll
               /\ ev' = Event(IF marked.ret THEN "mark_ok" ELSE "mark_fail", workorder_number)
               /\ runFault' = (runFault \/ ~marked.ret)
               /\ metrics' = Count(metrics, "outbound_synced", marked.ret)
               /\ workorders' = rest
               /\ pc' = IF rest = <<>> THEN "done" ELSE "outbound"
    /\ client' = get_client(client)
    /\ UNCHANGED <<reachable, peer, returned, inbound, outbound, adapter, now,
                   files_data, writes, failed, hist>>
    /\ NoTranslate

\* the end of execute_full_pipeline: _cleanup_resources and the result.
\* Both passes catch every exception of theirs, so the except branch of
\* execute_full_pipeline is not entered and the result is the success one.
\* m is what is left of the instance's counters afterwards.
End(m) ==
    /\ pc = "done"
    /\ pc' = "idle"
    /\ hist' = IF runFault THEN "fresh" ELSE "settled"
    /\ ev' = Event("finish", 0)
    /\ \E closes \in BOOLEAN : client' = cleanup_resources(client, closes)
    /\ returned' = Ok([overall_success |-> TRUE])
    /\ metrics' = m
    /\ UNCHANGED <<reachable, peer, inbound, outbound, collection, adapter, now,
                   files_data, workorders, writes, failed, runFault>>
    /\ NoTranslate

\* python main.py: main() returns and the process exits, its
\* IntegrationPipeline with it
Finish == End(ZeroMetrics)

Init ==
    /\ inbound = <<>>
    /\ outbound = <<>>
    /\ collection = {}
    /\ adapter = "tracos"
    /\ now = 0
    /\ pc = "idle"
    /\ files_data = <<>>
    /\ workorders = <<>>
    /\ ev = Event("init", 0)
    /\ writes = [n \in OrderNos |-> 0]
    /\ failed = {}
    /\ runFault = FALSE
    /\ hist = "fresh"
    /\ client = "none"
    /\ reachable = TRUE
    /\ returned = NoResult
    /\ metrics = ZeroMetrics
    /\ peer = <<>>
    /\ tin = <<>>
    /\ tout = <<>>

Next ==
    \/ \E f \in FileNames, r \in InboundRecords : ClientWritesFile(f, r)
    \/ StartRun
    \/ InboundStep
    \/ OutboundRead
    \/ OutboundWrite
    \/ OutboundMark
    \/ Finish

Spec == Init /\ [][Next]_vars

----------------------------------------------------------------------------
(* The pipeline with a store that goes down and comes back between         *)
(* invocations, over one valid record for each order number and, in the    *)
(* first inbound file, the records that lack a required field or carry     *)
(* null in it.                                                             *)
(* The runs of Spec in which every store operation fails are the runs made *)
(* here while the store is down.                                           *)

MissingVariants ==
    {"nosummary", "noorder", "nocreation", "nullorder", "nullsummary", "nullcreation"}

RunRecords(f) ==
    {ClientRecord(n, "none") : n \in OrderNos}
        \cup {ClientRecord(1, v) : v \in IF f = 1 THEN MissingVariants ELSE {}}

\* the store becomes unreachable, or reachable again
Outage ==
    /\ pc = "idle"
    /\ reachable' = ~reachable
    /\ ev' = Event("outage", 0)
    /\ UNCHANGED <<client, returned, peer, metrics, inbound, outbound, collection,
                   adapter, now, pc, files_data, workorders, writes, failed, runFault,
                   hist>>
    /\ NoTranslate

NextRun ==
    \/ \E f \in FileNames : \E r \in RunRecords(f) : ClientWritesFile(f, r)
    \/ Outage
    \/ StartRun
    \/ InboundStep
    \/ OutboundRead
    \/ OutboundWrite
    \/ OutboundMark
    \/ Finish

SpecRun == Init /\ [][NextRun]_vars

\* the steps of an invocation under way
Pass ==
    \/ InboundStep
    \/ OutboundRead
    \/ OutboundWrite
    \/ OutboundMark
    \/ Finish

LiveRecords == {ClientRecord(n, "none") : n \in OrderNos}

\* the pipeline over one inbound file that the Client system replaces
NextLive ==
    \/ \E r \in LiveRecords : ClientWritesFile(1, r)
    \/ StartRun
    \/ Pass

\* An invocation once started runs to its end: execute_full_pipeline awaits
\* each step in turn on one event loop and nothing cancels it.  When the
\* next invocation starts and what the Client system writes are up to the
\* environment.
SpecLive == Init /\ [][NextLive]_vars /\ WF_vars(Pass)

----------------------------------------------------------------------------
(* One process that keeps the global IntegrationPipeline and calls it      *)
(* again, as the integration tests do: the counters of the instance are    *)
(* those the earlier calls left.                                           *)

\* run_inbound_flow called on the instance the process already holds
CallAgain == Start(metrics)

\* execute_full_pipeline returns to a caller that keeps the instance
Return == End(metrics)

\* a valid record of each order number, a record that fails validation and
\* one whose translation raises
MetricsRecords ==
    {ClientRecord(n, "none") : n \in OrderNos}
        \cup {ClientRecord(1, v) : v \in InvalidVariants}

NextMetrics ==
    \/ \E r \in MetricsRecords : ClientWritesFile(1, r)
    \/ CallAgain
    \/ InboundStep
    \/ OutboundRead
    \/ OutboundWrite
    \/ OutboundMark
    \/ Return

SpecMetrics == Init /\ [][NextMetrics]_vars

----------------------------------------------------------------------------
(* The outbound pass over a store that TracOS itself has filled: every     *)
(* record is dirty, and some were not written by the inbound pass: a       *)
(* required field is missing, the status is not of the enum, or createdAt  *)
(* is a text.                                                              *)

SeedDefects == {"none", "notitle", "badstatus", "baddate"}

DirtyRecord(n, defect) ==
    LET doc == Merge(Bson(client_to_tracos(BaseRecord(n)).val), [isSynced |-> FALSE])
    IN  CASE defect = "none" -> doc
          [] defect = "notitle" -> Unset(doc, {"title"})
          [] defect = "nonumber" -> Unset(doc, {"number"})
          [] defect = "badstatus" -> [doc EXCEPT !["status"] = "archived"]
          [] defect = "baddate" -> [doc EXCEPT !["createdAt"] = DateZ]

\* at most one record per number, and possibly one record without number
OutboundSeeds ==
    {numbered \cup numberless :
        numbered \in {coll \in SUBSET {DirtyRecord(n, defect) :
                                          n \in OrderNos, defect \in SeedDefects} :
                         \A d \in coll : Cardinality(Matching(coll, d["number"])) = 1},
        numberless \in {{}, {DirtyRecord(1, "nonumber")}}}

InitOutbound ==
    /\ inbound = <<>>
    /\ outbound = <<>>
    /\ collection \in OutboundSeeds
    /\ adapter = "tracos"
    /\ now = 0
    /\ pc = "idle"
    /\ files_data = <<>>
    /\ workorders = <<>>
    /\ ev = Event("init", 0)
    /\ writes = [n \in OrderNos |-> 0]
    /\ failed = {}
    /\ runFault = FALSE
    /\ hist = "fresh"
    /\ client = "none"
    /\ reachable = TRUE
    /\ returned = NoResult
    /\ metrics = ZeroMetrics
    /\ peer = <<>>
    /\ tin = <<>>
    /\ tout = <<>>

NextOutbound ==
    \/ StartRun
    \/ OutboundRead
    \/ OutboundWrite
    \/ OutboundMark
    \/ Finish

SpecOutbound == InitOutbound /\ [][NextOutbound]_vars

----------------------------------------------------------------------------
(* Two coordinator instances on one store and one pair of directories: a   *)
(* second process runs its inbound pass while the first is anywhere in     *)
(* its invocation.  Each step below is one store or file operation, the    *)
(* points at which the event loops of the two processes can interleave.    *)

\* the second instance's run_inbound_flow up to its loop: read_inbound_files
PeerStart ==
    /\ peer = <<>>
    /\ DOMAIN inbound # {}
    /\ \E order \in Permutations_(DOMAIN inbound) :
          peer' = [i \in 1..Len(order) |-> inbound[order[i]]]
    /\ ev' = Event("peer_start", 0)
    /\ UNCHANGED <<inbound, outbound, collection, adapter, now, pc, files_data,
                   workorders, writes, failed, runFault, hist, client, reachable,
                   returned, metrics>>
    /\ NoTranslate

\* the second instance's _process_single_inbound_file on its next record;
\* its counters and its client are its own process's
PeerInboundStep ==
    /\ peer # <<>>
    /\ LET client_data == Head(peer)
           translated == client_to_tracos(client_data)
       IN  \E outcomes \in StoreCourses :
           LET valid == validate_client_data(client_data)
               saved == upsert_workorder(collection, translated.val, now, outcomes)
               success == valid /\ translated.ok /\ saved.ret
               n == IF valid THEN client_data["orderNo"] ELSE 0
           IN  /\ collection' = IF valid /\ translated.ok THEN saved.coll ELSE collection
               /\ ev' = Event(IF success THEN "peer_upsert_ok" ELSE "peer_upsert_fail", n)
               /\ writes' = IF success THEN [writes EXCEPT ![n] = 0] ELSE writes
               /\ peer' = Remaining(success, Tail(peer))
    /\ UNCHANGED <<inbound, outbound, adapter, now, pc, files_data, workorders, failed,
                   runFault, hist, client, reachable, returned, metrics>>
    /\ NoTranslate

\* two versions of one work order
PeerRecords == {ClientRecord(1, v) : v \in ValidVariants}

NextPeer ==
    \/ \E r \in PeerRecords : ClientWritesFile(1, r)
    \/ StartRun
    \/ InboundStep
    \/ OutboundRead
    \/ OutboundWrite
    \/ OutboundMark
    \/ Finish
    \/ PeerStart
    \/ PeerInboundStep

SpecPeer == Init /\ [][NextPeer]_vars

----------------------------------------------------------------------------
(* The store adapters alone: any sequence of upsert_workorder,             *)
(* mark_as_synced and read_unsynced_workorders, on either adapter.  The    *)
(* list a read returns is held in workorders until the next operation.     *)

\* what the translator returns for the valid inbound records, and for a
\* deleted record of order number 1
StoreInputs ==
    {client_to_tracos(r).val :
        r \in {x \in InboundRecords \cup {ClientRecord(1, "deleted")} : client_to_tracos(x).ok}}

\* a record as the translator returns it, with its number removed
NumberlessInputs == {Unset(client_to_tracos(ClientRecord(1, "none")).val, {"number"})}

\* upsert_workorder on its own; "upsert_error" when an exception escapes it
StoreUpsert(workorder_data) ==
    /\ \E outcomes \in StoreCourses :
          LET saved == upsert_workorder(collection, workorder_data, now, outcomes)
          IN  /\ collection' = saved.coll
              /\ ev' = Event(IF saved.raised # "none" THEN "upsert_error"
                             ELSE IF saved.ret THEN "upsert_ok" ELSE "upsert_fail",
                             Get(workorder_data, "number", 0))
    /\ workorders' = <<>>
    /\ client' = get_client(client)
    /\ UNCHANGED <<reachable, peer, returned, metrics, inbound, outbound, adapter, now,
                   pc, files_data, writes, failed, runFault, hist>>
    /\ NoTranslate

\* mark_as_synced on its own; the history tells a False returned because the
\* store operation raised ("mark_error") from a False returned by
\* _mark_operation ("mark_fail")
StoreMark(number) ==
    /\ \E outcomes \in StoreCourses :
          LET marked == mark_as_synced(collection, number, now, outcomes)
          IN  /\ collection' = marked.coll
              /\ ev' = Event(IF retry_mongo_operation(outcomes).result # "ok"
                             THEN "mark_error"
                             ELSE IF marked.ret THEN "mark_ok" ELSE "mark_fail", number)
    /\ workorders' = <<>>
    /\ client' = get_client(client)
    /\ UNCHANGED <<reachable, peer, returned, metrics, inbound, outbound, adapter, now,
                   pc, files_data, writes, failed, runFault, hist>>
    /\ NoTranslate

StoreRead ==
    /\ \E outcomes \in StoreCourses :
          /\ workorders' \in read_unsynced_workorders(collection, outcomes)
          /\ ev' = Event(IF retry_mongo_operation(outcomes).result = "ok"
                         THEN "read_ok" ELSE "read_fail", 0)
    /\ client' = get_client(client)
    /\ UNCHANGED <<reachable, peer, returned, metrics, inbound, outbound, collection,
                   adapter, now, pc, files_data, writes, failed, runFault, hist>>
    /\ NoTranslate

\* time passes between store operations
Tick ==
    /\ now < MaxRuns
    /\ now' = now + 1
    /\ ev' = Event("tick", 0)
    /\ workorders' = <<>>
    /\ UNCHANGED <<client, reachable, peer, returned, metrics, inbound, outbound,
                   collection, adapter, pc, files_data, writes, failed, runFault, hist>>
    /\ NoTranslate

InitStore ==
    /\ inbound = <<>>
    /\ outbound = <<>>
    /\ collection = {}
    /\ adapter \in {"tracos", "cmms"}
    /\ now = 0
    /\ pc = "store"
    /\ files_data = <<>>
    /\ workorders = <<>>
    /\ ev = Event("init", 0)
    /\ writes = [n \in OrderNos |-> 0]
    /\ failed = {}
    /\ runFault = FALSE
    /\ hist = "fresh"
    /\ client = "none"
    /\ reachable = TRUE
    /\ returned = NoResult
    /\ metrics = ZeroMetrics
    /\ peer = <<>>
    /\ tin = <<>>
    /\ tout = <<>>

NextStore ==
    \/ \E workorder_data \in StoreInputs \cup NumberlessInputs : StoreUpsert(workorder_data)
    \/ \E number \in OrderNos : StoreMark(number)
    \/ StoreRead
    \/ Tick

SpecStore == InitStore /\ [][NextStore]_vars

----------------------------------------------------------------------------
(* The store adapters with their connection: any sequence of store         *)
(* operations and close_connection calls.                                  *)

\* close_connection (MongoService.close) called on its own; "close_error"
\* when the client's close() raises
StoreClose ==
    /\ \E closes \in BOOLEAN :
          LET closed == close_connection(client, closes)
          IN  /\ client' = closed.client
              /\ ev' = Event(IF closed.raised THEN "close_error" ELSE "close_ok", 0)
    /\ workorders' = <<>>
    /\ UNCHANGED <<reachable, peer, returned, metrics, inbound, outbound, collection,
                   adapter, now, pc, files_data, writes, failed, runFault, hist>>
    /\ NoTranslate

ConnectionInputs == {client_to_tracos(r).val : r \in LiveRecords}

NextConnection ==
    \/ \E workorder_data \in ConnectionInputs : StoreUpsert(workorder_data)
    \/ \E number \in OrderNos : StoreMark(number)
    \/ StoreRead
    \/ StoreClose

SpecConnection == InitStore /\ [][NextConnection]_vars

----------------------------------------------------------------------------
(* read_unsynced_workorders of either adapter over collections as TracOS   *)
(* and earlier invocations may have left them: at most one record for each *)
(* number, its isSynced true, false or absent.                             *)

SeedNos == 1..(MaxOrderNo + 1)
SyncStates == {"true", "false", "absent"}

SeedDoc(n, sync) ==
    LET doc == Bson(client_to_tracos(BaseRecord(n)).val)
    IN  CASE sync = "true" -> Merge(doc, [isSynced |-> TRUE])
          [] sync = "false" -> Merge(doc, [isSynced |-> FALSE])
          [] sync = "absent" -> doc

SeedCollections ==
    {coll \in SUBSET {SeedDoc(n, sync) : n \in SeedNos, sync \in SyncStates} :
        \A d \in coll : Cardinality(Matching(coll, d["number"])) = 1}

InitRead ==
    /\ inbound = <<>>
    /\ outbound = <<>>
    /\ collection \in SeedCollections
    /\ adapter \in {"tracos", "cmms"}
    /\ now = 0
    /\ pc = "read"
    /\ files_data = <<>>
    /\ workorders = <<>>
    /\ ev = Event("init", 0)
    /\ writes = [n \in OrderNos |-> 0]
    /\ failed = {}
    /\ runFault = FALSE
    /\ hist = "fresh"
    /\ client = "none"
    /\ reachable = TRUE
    /\ returned = NoResult
    /\ metrics = ZeroMetrics
    /\ peer = <<>>
    /\ tin = <<>>
    /\ tout = <<>>

NextRead == StoreRead

SpecRead == InitRead /\ [][NextRead]_vars

----------------------------------------------------------------------------
(* The translator's functions applied to bounded inputs *)

STATUS_FLAGS == {"isDone", "isCanceled", "isOnHold", "isActive", "isPending"}

\* every flag true, false or absent
FlagSettings == UNION {[on -> BOOLEAN] : on \in SUBSET STATUS_FLAGS}

TranslateInputs ==
    {Merge([orderNo |-> 1, summary |-> "workorder", creationDate |-> DateZ], flags) :
        flags \in FlagSettings}

NotApplied == [fn |-> "none", res |-> Raise("none")]

ApplyClientToTracos ==
    /\ tout = NotApplied
    /\ tout' = [fn |-> "client_to_tracos", res |-> client_to_tracos(tin)]
    /\ UNCHANGED <<client, reachable, peer, returned, metrics, inbound, outbound,
                   collection, adapter, now, pc, files_data, workorders, ev, writes,
                   failed, runFault, hist, tin>>

InitTranslate ==
    /\ inbound = <<>>
    /\ outbound = <<>>
    /\ collection = {}
    /\ adapter = "tracos"
    /\ now = 0
    /\ pc = "translate"
    /\ files_data = <<>>
    /\ workorders = <<>>
    /\ ev = Event("init", 0)
    /\ writes = [n \in OrderNos |-> 0]
    /\ failed = {}
    /\ runFault = FALSE
    /\ hist = "fresh"
    /\ client = "none"
    /\ reachable = TRUE
    /\ returned = NoResult
    /\ metrics = ZeroMetrics
    /\ peer = <<>>
    /\ tin \in TranslateInputs
    /\ tout = NotApplied

NextTranslate ==
    \/ ApplyClientToTracos

SpecTranslate == InitTranslate /\ [][NextTranslate]_vars

----------------------------------------------------------------------------
(* Both translators (TracOS and CMMS variant) applied to client records and *)
(* to store records, well-formed or not, and each toExternal applied to    *)
(* what the toInternal of its variant returned.                            *)

CLIENT_FLAGS == {"isDeleted", "isDone", "isCanceled", "isOnHold", "isActive", "isPending"}

DateOffset == IsoString(<<"lit", 2>>, "+00:00")

\* well-formed client records: every flag true or false, deletedDate absent,
\* null or a date
GoodClientInputs ==
    {Merge(Merge([orderNo |-> 1, summary |-> "workorder", creationDate |-> DateZ], flags),
           deleted_date) :
        flags \in [CLIENT_FLAGS -> BOOLEAN],
        deleted_date \in {<<>>, [deletedDate |-> NoDate], [deletedDate |-> <<DateOffset>>]}}

\* client records with required fields absent, an unparseable date, or no
\* flag at all
BadClientInputs ==
    {Merge([f \in present |-> IF f = "orderNo" THEN 1
                              ELSE IF f = "summary" THEN "workorder"
                              ELSE date],
           flags) :
        present \in SUBSET CLIENT_REQUIRED,
        date \in {DateZ, DateBad},
        flags \in {<<>>, [isDone |-> TRUE], [isDeleted |-> TRUE, deletedDate |-> <<DateBad>>]}}

OtherStatuses == {"deleted", "archived"}

StoreDate(tz) == [inst |-> <<"lit", 1>>, tz |-> tz]

\* store records: any subset of the required fields, a status of either
\* enum or of none, deleted and deletedAt present or not
InternalInputs ==
    {Merge(Merge([f \in present |-> IF f = "number" THEN 1
                                    ELSE IF f = "title" THEN "workorder"
                                    ELSE IF f = "status" THEN status
                                    ELSE StoreDate(tz)],
                 deleted),
           deleted_at) :
        present \in SUBSET TRACOS_REQUIRED,
        status \in VALID_CMMS_STATUS \cup OtherStatuses,
        tz \in {"utc", "naive"},
        deleted \in {<<>>, [deleted |-> TRUE], [deleted |-> FALSE]},
        deleted_at \in {<<>>, [deletedAt |-> StoreDate("utc")]}}

ConvertInputs == GoodClientInputs \cup BadClientInputs \cup InternalInputs

ApplyConvertClientToCmms ==
    /\ tout = NotApplied
    /\ tout' = [fn |-> "convert_client_to_cmms", res |-> convert_client_to_cmms(tin)]
    /\ UNCHANGED <<client, reachable, peer, returned, metrics, inbound, outbound,
                   collection, adapter, now, pc, files_data, workorders, ev, writes,
                   failed, runFault, hist, tin>>

ApplyTracosToClient ==
    /\ tout = NotApplied
    /\ tout' = [fn |-> "tracos_to_client", res |-> tracos_to_client(tin)]
    /\ UNCHANGED <<client, reachable, peer, returned, metrics, inbound, outbound,
                   collection, adapter, now, pc, files_data, workorders, ev, writes,
                   failed, runFault, hist, tin>>

ApplyConvertCmmsToClient ==
    /\ tout = NotApplied
    /\ tout' = [fn |-> "convert_cmms_to_client", res |-> convert_cmms_to_client(tin)]
    /\ UNCHANGED <<client, reachable, peer, returned, metrics, inbound, outbound,
                   collection, adapter, now, pc, files_data, workorders, ev, writes,
                   failed, runFault, hist, tin>>

\* tracos_to_client applied to the record client_to_tracos returned
TracosRoundTrip ==
    /\ tout.fn = "client_to_tracos"
    /\ tout.res.ok
    /\ tout' = [fn |-> "client_to_tracos;tracos_to_client",
                res |-> tracos_to_client(tout.res.val)]
    /\ UNCHANGED <<client, reachable, peer, returned, metrics, inbound, outbound,
                   collection, adapter, now, pc, files_data, workorders, ev, writes,
                   failed, runFault, hist, tin>>

\* convert_cmms_to_client applied to the record convert_client_to_cmms returned
CmmsRoundTrip ==
    /\ tout.fn = "convert_client_to_cmms"
    /\ tout.res.ok
    /\ tout' = [fn |-> "convert_client_to_cmms;convert_cmms_to_client",
                res |-> convert_cmms_to_client(tout.res.val)]
    /\ UNCHANGED <<client, reachable, peer, returned, metrics, inbound, outbound,
                   collection, adapter, now, pc, files_data, workorders, ev, writes,
                   failed, runFault, hist, tin>>

InitConvert ==
    /\ inbound = <<>>
    /\ outbound = <<>>
    /\ collection = {}
    /\ adapter = "tracos"
    /\ now = 0
    /\ pc = "convert"
    /\ files_data = <<>>
    /\ workorders = <<>>
    /\ ev = Event("init", 0)
    /\ writes = [n \in OrderNos |-> 0]
    /\ failed = {}
    /\ runFault = FALSE
    /\ hist = "fresh"
    /\ client = "none"
    /\ reachable = TRUE
    /\ returned = NoResult
    /\ metrics = ZeroMetrics
    /\ peer = <<>>
    /\ tin \in ConvertInputs
    /\ tout = NotApplied

NextConvert ==
    \/ ApplyClientToTracos
    \/ ApplyConvertClientToCmms
    \/ ApplyTracosToClient
    \/ ApplyConvertCmmsToClient
    \/ TracosRoundTrip
    \/ CmmsRoundTrip

SpecConvert == InitConvert /\ [][NextConvert]_vars

----------------------------------------------------------------------------
(* The two retry wrappers applied to what the attempts of an operation     *)
(* would do, one attempt more than the wrappers allow.                     *)

RetryInputs == [1..(max_attempts + 1) -> AttemptOutcomes]

ApplyTracosRetry ==
    /\ tout = NotApplied
    /\ tout' = [fn |-> "TracosAdapter._retry_mongo_operation",
                res |-> retry_mongo_operation(tin)]
    /\ UNCHANGED <<client, reachable, peer, returned, metrics, inbound, outbound,
                   collection, adapter, now, pc, files_data, workorders, ev, writes,
                   failed, runFault, hist, tin>>

ApplyMongoServiceRetry ==
    /\ tout = NotApplied
    /\ tout' = [fn |-> "MongoService.retry_mongo_operation",
                res |-> mongo_service_retry_mongo_operation(tin)]
    /\ UNCHANGED <<client, reachable, peer, returned, metrics, inbound, outbound,
                   collection, adapter, now, pc, files_data, workorders, ev, writes,
                   failed, runFault, hist, tin>>

InitRetry ==
    /\ inbound = <<>>
    /\ outbound = <<>>
    /\ collection = {}
    /\ adapter = "tracos"
    /\ now = 0
    /\ pc = "retry"
    /\ files_data = <<>>
    /\ workorders = <<>>
    /\ ev = Event("init", 0)
    /\ writes = [n \in OrderNos |-> 0]
    /\ failed = {}
    /\ runFault = FALSE
    /\ hist = "fresh"
    /\ client = "none"
    /\ reachable = TRUE
    /\ returned = NoResult
    /\ metrics = ZeroMetrics
    /\ peer = <<>>
    /\ tin \in RetryInputs
    /\ tout = NotApplied

NextRetry ==
    \/ ApplyTracosRetry
    \/ ApplyMongoServiceRetry

SpecRetry == InitRetry /\ [][NextRetry]_vars

----------------------------------------------------------------------------
(* Properties *)

Dirty(coll, n) == Matching(coll, n) # {} /\ ~IsSynced(coll, n)

Numbers(list) == {list[i]["number"] : i \in 1..Len(list)}

\* C1: mark_as_synced is issued for a record only right after the sink write
\* of that record's file reported success, and no record turns isSynced=true
\* in a step that does not follow such a write.
C1_MarkOnlyAfterWrite ==
    [][ /\ (ev'.kind \in {"mark_ok", "mark_fail"}
              => /\ ev.kind = "write_ok"
                 /\ ev.number = ev'.number
                 /\ Filename(ev'.number) \in DOMAIN outbound)
        /\ \A n \in OrderNos :
              (~IsSynced(collection, n) /\ IsSynced(collection', n))
                 => (ev.kind = "write_ok" /\ ev.number = n) ]_vars

C1_Witness ==
    /\ ev.kind = "mark_ok"
    /\ IsSynced(collection, ev.number)
    /\ Filename(ev.number) \in DOMAIN outbound

\* C2: after every successful upsert_workorder the stored record of that
\* number has isSynced=false, whether the number was new, dirty or clean.
C2_UpsertLeavesDirty ==
    ev.kind = "upsert_ok"
        => /\ Cardinality(Matching(collection, ev.number)) = 1
           /\ \A d \in Matching(collection, ev.number) :
                 "isSynced" \in DOMAIN d /\ d["isSynced"] = FALSE

\* an upsert has just hit a record that had been marked synced before
C2_Witness ==
    /\ ev.kind = "upsert_ok"
    /\ \E d \in Matching(collection, ev.number) :
          "syncedAt" \in DOMAIN d /\ d["isSynced"] = FALSE

\* C3: a record carries syncedAt only while isSynced is true.
C3_SyncedAtOnlyWhileSynced ==
    \A d \in collection :
        "syncedAt" \in DOMAIN d => ("isSynced" \in DOMAIN d /\ d["isSynced"] = TRUE)

\* C4: an invocation that follows a fault-free invocation, with no inbound
\* file written in between, finds zero unsynced records in its outbound pass.
C4_SecondRunFindsNothing ==
    (hist = "repeat" /\ ~runFault /\ ev.kind = "read_ok") => workorders = <<>>

\* C5: between two upserts of a number its file is written at most once.
C5_AtMostOncePerChange ==
    \A n \in OrderNos : writes[n] <= 1

C7_WriteFailureLeavesDirty ==
    [][ /\ (ev'.kind = "write_fail"
              => /\ collection' = collection
                 /\ outbound' = outbound
                 /\ pc' # "mark"
                 /\ workorders' = Tail(workorders)
                 /\ ev'.number \notin Numbers(workorders')
                 /\ ev'.number \in failed')
        /\ (\A n \in failed' : Dirty(collection', n))
        /\ (ev'.kind = "read_ok" => failed \subseteq Numbers(workorders')) ]_vars

\* a record whose write failed in an earlier pass has just been read again
C7_Witness ==
    /\ ev.kind = "read_ok"
    /\ failed # {}
    /\ failed \subseteq Numbers(workorders)

\* C8: whatever happens to a record, the pass goes on with the next record
\* of its list, in list order, and ends only when the list is exhausted.
C8_FailureNeverAbortsBatch ==
    [][ /\ (pc = "inbound"
              => /\ files_data' = Tail(files_data)
                 /\ pc' = (IF files_data' = <<>> THEN "outread" ELSE "inbound"))
        /\ (pc = "outbound"
              => \/ (ev'.kind = "write_ok" /\ pc' = "mark" /\ workorders' = workorders)
                 \/ /\ ev'.kind \in {"write_fail", "outbound_error"}
                    /\ workorders' = Tail(workorders)
                    /\ pc' = (IF workorders' = <<>> THEN "done" ELSE "outbound"))
        /\ (pc = "mark"
              => /\ workorders' = Tail(workorders)
                 /\ pc' = (IF workorders' = <<>> THEN "done" ELSE "outbound")) ]_vars

\* a record has just failed and the pass is about to process the next one
C8_Witness ==
    \/ /\ pc = "inbound"
       /\ ev.kind \in {"invalid", "inbound_error", "upsert_fail"}
       /\ files_data # <<>>
    \/ /\ pc = "outbound"
       /\ ev.kind \in {"write_fail", "mark_fail"}
       /\ workorders # <<>>

\* C9: the list the outbound pass processes is in ascending order of number.
C9_AscendingOrder ==
    ev.kind = "read_ok" => IsSorted(workorders)

C10_Expected(c) ==
    IF Truthy(c, "isDone") THEN "completed"
    ELSE IF Truthy(c, "isCanceled") THEN "cancelled"
    ELSE IF Truthy(c, "isOnHold") THEN "on_hold"
    ELSE IF Truthy(c, "isActive") THEN "in_progress"
    ELSE "pending"

C10_OnlyHighest(c) ==
    LET top == IF Truthy(c, "isDone") THEN "isDone"
               ELSE IF Truthy(c, "isCanceled") THEN "isCanceled"
               ELSE IF Truthy(c, "isOnHold") THEN "isOnHold"
               ELSE IF Truthy(c, "isActive") THEN "isActive"
               ELSE "isPending"
    IN  [f \in DOMAIN c |-> IF f \in STATUS_FLAGS THEN (f = top /\ Truthy(c, f)) ELSE c[f]]

\* C10: the status client_to_tracos yields is that of the first true flag in
\* the order isDone, isCanceled, isOnHold, isActive, isPending, pending when
\* none is true; it equals the status of the input with only that flag true.
C10_StatusPriority ==
    tout.fn = "client_to_tracos"
        => /\ tout.res.ok
           /\ tout.res.val["status"] = C10_Expected(tin)
           /\ tout.res.val["status"] = client_to_tracos(C10_OnlyHighest(tin)).val["status"]

C10_Witness ==
    /\ tout.fn = "client_to_tracos"
    /\ Cardinality({f \in STATUS_FLAGS : Truthy(tin, f)}) >= 2
    /\ ~Truthy(tin, "isDone")
    /\ tout.res.val["status"] = "cancelled"

C11_Expected(c) ==
    IF Truthy(c, "isDeleted") THEN "deleted"
    ELSE IF Truthy(c, "isDone") THEN "completed"
    ELSE IF Truthy(c, "isCanceled") THEN "cancelled"
    ELSE IF Truthy(c, "isOnHold") THEN "on_hold"
    ELSE IF Truthy(c, "isPending") THEN "pending"
    ELSE "in_progress"

ToInternal == {"client_to_tracos", "convert_client_to_cmms"}
ToExternal == {"tracos_to_client", "convert_cmms_to_client"}

\* C11: every toInternal that returns a record resolves status by the order
\* isDeleted > isDone > isCanceled > isOnHold > isPending, in_progress when
\* no flag is true.
C11_DeletedFirstPriority ==
    (tout.fn \in ToInternal /\ tout.res.ok) => tout.res.val["status"] = C11_Expected(tin)

\* C11 as amended: convert_client_to_cmms resolves status by that order and
\* default, while client_to_tracos resolves it by isDone > isCanceled >
\* isOnHold > isActive > isPending with pending as default, whatever isDeleted.
C11_PriorityPerVariant ==
    /\ (tout.fn = "convert_client_to_cmms" /\ tout.res.ok)
          => tout.res.val["status"] = C11_Expected(tin)
    /\ (tout.fn = "client_to_tracos" /\ tout.res.ok)
          => tout.res.val["status"] = C10_Expected(tin)

C11_Witness ==
    /\ tout.fn = "convert_client_to_cmms"
    /\ tout.res.ok
    /\ Truthy(tin, "isDeleted")
    /\ Truthy(tin, "isDone")
    /\ tout.res.val["status"] = "deleted"

C12_OnlyPendingAndDeleted(c) ==
    /\ Truthy(c, "isDeleted")
    /\ {f \in STATUS_FLAGS : Truthy(c, f)} = {"isPending"}

\* C12: every toInternal that returns a record sets deleted to isDeleted
\* (false when absent) and never yields the status "deleted"; isDeleted=true
\* with isPending=true gives status=pending, deleted=true.
C12_DeletedOrthogonal ==
    (tout.fn \in ToInternal /\ tout.res.ok)
        => /\ tout.res.val["deleted"] = Get(tin, "isDeleted", FALSE)
           /\ tout.res.val["status"] # "deleted"
           /\ C12_OnlyPendingAndDeleted(tin)
                 => (tout.res.val["status"] = "pending" /\ tout.res.val["deleted"] = TRUE)

\* C12 as amended: client_to_tracos translates every well-formed record,
\* sets deleted to isDeleted (false when absent) and yields the status it
\* yields for the same record without isDeleted, never "deleted";
\* convert_client_to_cmms sets deleted the same way but yields the status
\* "deleted" exactly when isDeleted is true.
C12_DeletedPerVariant ==
    /\ (tout.fn = "client_to_tracos" /\ tin \in GoodClientInputs) => tout.res.ok
    /\ (tout.fn = "client_to_tracos" /\ tout.res.ok)
          => /\ tout.res.val["deleted"] = Get(tin, "isDeleted", FALSE)
             /\ tout.res.val["status"] # "deleted"
             /\ tout.res.val["status"]
                   = determine_tracos_status(Unset(tin, {"isDeleted", "deletedDate"}))
             /\ C12_OnlyPendingAndDeleted(tin)
                   => (tout.res.val["status"] = "pending" /\ tout.res.val["deleted"] = TRUE)
    /\ (tout.fn = "convert_client_to_cmms" /\ tout.res.ok)
          => /\ tout.res.val["deleted"] = Get(tin, "isDeleted", FALSE)
             /\ (tout.res.val["status"] = "deleted") = Truthy(tin, "isDeleted")

C12_Witness ==
    /\ tout.fn = "client_to_tracos"
    /\ tout.res.ok
    /\ C12_OnlyPendingAndDeleted(tin)
    /\ tout.res.val["status"] = "pending"
    /\ tout.res.val["deleted"] = TRUE

CMMS_FLAGS == {"isDeleted", "isDone", "isCanceled", "isOnHold", "isPending"}

RoundTrips == {"client_to_tracos;tracos_to_client",
               "convert_client_to_cmms;convert_cmms_to_client"}

TrueFlags(c, flags) == {f \in flags : Truthy(c, f)}

\* C13: toExternal(toInternal(x)) of a valid record x has the orderNo and the
\* summary of x and, unless every status flag of x is false, the value x has
\* for every boolean flag; when they are all false it has isPending=true.
C13_RoundTripKeepsFlags ==
    (tout.fn \in RoundTrips /\ tin \in GoodClientInputs)
        => /\ tout.res.ok
           /\ tout.res.val["orderNo"] = tin["orderNo"]
           /\ tout.res.val["summary"] = tin["summary"]
           /\ IF TrueFlags(tin, STATUS_FLAGS) = {}
              THEN tout.res.val["isPending"] = TRUE
              ELSE \A f \in CLIENT_FLAGS \cap DOMAIN tout.res.val :
                      tout.res.val[f] = Truthy(tin, f)

\* C13 as amended: the round trip keeps orderNo and summary.  TracOS variant:
\* isDeleted is kept; with exactly one status flag true the status flags are
\* kept, with none true the result has isPending alone, with several true
\* the result has the highest-priority one alone.  CMMS variant: with exactly
\* one of isDeleted, isDone, isCanceled, isOnHold, isPending true these five
\* are kept, with none true all five are false in the result.
C13_RoundTripPerVariant ==
    /\ (tout.fn \in RoundTrips /\ tin \in GoodClientInputs)
          => /\ tout.res.ok
             /\ tout.res.val["orderNo"] = tin["orderNo"]
             /\ tout.res.val["summary"] = tin["summary"]
    /\ (tout.fn = "client_to_tracos;tracos_to_client" /\ tin \in GoodClientInputs)
          => /\ tout.res.val["isDeleted"] = Truthy(tin, "isDeleted")
             /\ Cardinality(TrueFlags(tin, STATUS_FLAGS)) = 1
                   => \A f \in STATUS_FLAGS : tout.res.val[f] = Truthy(tin, f)
             /\ TrueFlags(tin, STATUS_FLAGS) = {}
                   => TrueFlags(tout.res.val, STATUS_FLAGS) = {"isPending"}
             /\ Cardinality(TrueFlags(tin, STATUS_FLAGS)) > 1
                   => TrueFlags(tout.res.val, STATUS_FLAGS)
                        = TrueFlags(C10_OnlyHighest(tin), STATUS_FLAGS)
    /\ (tout.fn = "convert_client_to_cmms;convert_cmms_to_client" /\ tin \in GoodClientInputs)
          => /\ Cardinality(TrueFlags(tin, CMMS_FLAGS)) = 1
                   => \A f \in CMMS_FLAGS : tout.res.val[f] = Truthy(tin, f)
             /\ TrueFlags(tin, CMMS_FLAGS) = {}
                   => TrueFlags(tout.res.val, CMMS_FLAGS) = {}

C13_Witness ==
    /\ tout.fn = "client_to_tracos;tracos_to_client"
    /\ tin \in GoodClientInputs
    /\ TrueFlags(tin, CLIENT_FLAGS) = {"isOnHold", "isDeleted"}
    /\ TrueFlags(tout.res.val, CLIENT_FLAGS) = {"isOnHold", "isDeleted"}

TRACOS_SCHEMA_STATUS == {"pending", "in_progress", "completed", "on_hold", "cancelled"}

\* C14: whatever the input, a toInternal either raises KeyError or ValueError
\* or returns a record whose status is in the valid enum of its variant (the
\* five statuses of the TracOS schema; these and "deleted" in the CMMS one).
C14_StatusInEnum ==
    /\ tout.fn = "client_to_tracos"
          => IF tout.res.ok THEN tout.res.val["status"] \in TRACOS_SCHEMA_STATUS
             ELSE tout.res.err \in {"KeyError", "ValueError"}
    /\ tout.fn = "convert_client_to_cmms"
          => IF tout.res.ok
             THEN tout.res.val["status"] \in TRACOS_SCHEMA_STATUS \cup {"deleted"}
             ELSE tout.res.err \in {"KeyError", "ValueError"}

C14_Witness ==
    /\ tout.fn = "client_to_tracos"
    /\ tout.res.ok
    /\ Cardinality(TrueFlags(tin, CLIENT_FLAGS)) >= 3
    /\ tout.res.val["status"] = "on_hold"

\* C15: a toInternal applied to a record that lacks any of orderNo, summary,
\* creationDate raises KeyError, and so does a toExternal applied to a record
\* that lacks any of number, title, status, createdAt, updatedAt, whatever the
\* dates and the status of the record are.
C15_MissingFieldFirst ==
    /\ (tout.fn \in ToInternal /\ ~(CLIENT_REQUIRED \subseteq DOMAIN tin))
          => tout.res = Raise("KeyError")
    /\ (tout.fn \in ToExternal /\ ~(TRACOS_REQUIRED \subseteq DOMAIN tin))
          => tout.res = Raise("KeyError")

\* a store record without title and with a status of no enum
C15_Witness ==
    /\ tout.fn = "tracos_to_client"
    /\ DOMAIN tin \cap TRACOS_REQUIRED = TRACOS_REQUIRED \ {"title"}
    /\ tin["status"] = "archived"
    /\ tout.res = Raise("KeyError")

\* C16: a toExternal applied to a store record that has the required fields
\* and a status outside the valid enum of its variant raises ValueError and
\* returns no record.
C16_InvalidStatusRejected ==
    /\ (/\ tout.fn = "tracos_to_client"
        /\ TRACOS_REQUIRED \subseteq DOMAIN tin
        /\ tin["status"] \notin TRACOS_SCHEMA_STATUS)
          => tout.res = Raise("ValueError")
    /\ (/\ tout.fn = "convert_cmms_to_client"
        /\ TRACOS_REQUIRED \subseteq DOMAIN tin
        /\ tin["status"] \notin TRACOS_SCHEMA_STATUS \cup {"deleted"})
          => tout.res = Raise("ValueError")

C16_Witness ==
    /\ tout.fn = "tracos_to_client"
    /\ TRACOS_REQUIRED \subseteq DOMAIN tin
    /\ tin["status"] = "archived"
    /\ tout.res = Raise("ValueError")

NonFlagFields == {"orderNo", "summary", "creationDate", "lastUpdateDate", "deletedDate"}

StatusOfFlag(f) ==
    CASE f = "isDone" -> "completed"
      [] f = "isCanceled" -> "cancelled"
      [] f = "isOnHold" -> "on_hold"
      [] f = "isPending" -> "pending"
      [] f = "isActive" -> "in_progress"
      [] f = "isDeleted" -> "deleted"

\* C17: a toExternal that returns a record returns one with exactly the five
\* boolean flags isDone, isCanceled, isOnHold, isPending, isDeleted, each of
\* the first four true exactly when the status is its status and isDeleted
\* from status = "deleted" or from the deleted field; at most one of the
\* first four is true.
C17_ExactlyFiveFlags ==
    (tout.fn \in ToExternal /\ tout.res.ok)
        => /\ DOMAIN tout.res.val \ NonFlagFields = CMMS_FLAGS
           /\ \A f \in CMMS_FLAGS \ {"isDeleted"} :
                 tout.res.val[f] = (tin["status"] = StatusOfFlag(f))
           /\ tout.res.val["isDeleted"]
                 = (IF tout.fn = "tracos_to_client" THEN Get(tin, "deleted", FALSE)
                    ELSE tin["status"] = "deleted")
           /\ Cardinality(TrueFlags(tout.res.val, CMMS_FLAGS \ {"isDeleted"})) <= 1

\* C17 as amended: tracos_to_client returns six boolean flags, isDone,
\* isCanceled, isOnHold, isPending, isActive, each true exactly when the
\* status is its status (so exactly one is true), and isDeleted, the deleted
\* field (false when absent); convert_cmms_to_client returns five, isDone,
\* isCanceled, isOnHold, isPending, isDeleted, each true exactly when the
\* status is its status (so at most one is true).
C17_FlagsPerVariant ==
    /\ (tout.fn = "tracos_to_client" /\ tout.res.ok)
          => /\ DOMAIN tout.res.val \ NonFlagFields = CLIENT_FLAGS
             /\ \A f \in STATUS_FLAGS :
                   tout.res.val[f] = (tin["status"] = StatusOfFlag(f))
             /\ tout.res.val["isDeleted"] = Get(tin, "deleted", FALSE)
             /\ Cardinality(TrueFlags(tout.res.val, STATUS_FLAGS)) = 1
    /\ (tout.fn = "convert_cmms_to_client" /\ tout.res.ok)
          => /\ DOMAIN tout.res.val \ NonFlagFields = CMMS_FLAGS
             /\ \A f \in CMMS_FLAGS :
                   tout.res.val[f] = (tin["status"] = StatusOfFlag(f))
             /\ Cardinality(TrueFlags(tout.res.val, CMMS_FLAGS)) <= 1

C17_Witness ==
    /\ tout.fn = "tracos_to_client"
    /\ tout.res.ok
    /\ tin["status"] = "in_progress"
    /\ TrueFlags(tout.res.val, CLIENT_FLAGS) = {"isActive", "isDeleted"}

\* C18: an upsert replaces the whole stored record, so no stored record has
\* a deletedAt left over from a version that was deleted: every stored
\* record with a deletedAt has deleted=true.
C18_NoStaleDeletedAt ==
    \A d \in collection : "deletedAt" \in DOMAIN d => d["deleted"] = TRUE

\* C19: a mark_as_synced whose store operation does not raise sets
\* isSynced=true and syncedAt to the current time on the record of that
\* number and returns true; when there is no such record it returns false
\* and leaves the collection as it was.
C19_MarkReturnsFound ==
    [][ ev'.kind \in {"mark_ok", "mark_fail"}
          => IF Matching(collection, ev'.number) # {}
             THEN /\ ev'.kind = "mark_ok"
                  /\ \A d \in Matching(collection', ev'.number) :
                        /\ d["isSynced"] = TRUE
                        /\ d["syncedAt"] = Bson([syncedAt |-> utcnow(now)])["syncedAt"]
                  /\ \A d \in collection : d["number"] # ev'.number => d \in collection'
                  /\ Cardinality(collection') = Cardinality(collection)
             ELSE /\ ev'.kind = "mark_fail"
                  /\ collection' = collection ]_vars

RetryWrappers == {"TracosAdapter._retry_mongo_operation", "MongoService.retry_mongo_operation"}

\* C20: a retry wrapper invokes the operation at least once and at most 3
\* times; every attempt before the last ended in a transient error; it
\* returns the result of the first attempt that succeeds; after a transient
\* error it makes another attempt unless that was the third, which it raises;
\* and both wrappers make the same number of attempts.
C20_AtMostThreeAttempts ==
    tout.fn \in RetryWrappers
        => /\ tout.res.calls \in 1..3
           /\ \A i \in 1..(tout.res.calls - 1) : tin[i] = "transient"
           /\ (tout.res.result = "ok") = (tin[tout.res.calls] = "ok")
           /\ tin[tout.res.calls] = "transient"
                 => (tout.res.calls = 3 /\ tout.res.result = "raise")
           /\ retry_mongo_operation(tin).calls = mongo_service_retry_mongo_operation(tin).calls

\* three transient errors: the third is raised, whatever a fourth attempt
\* would have done
C20_Witness ==
    /\ tout.fn \in RetryWrappers
    /\ \A i \in 1..3 : tin[i] = "transient"
    /\ tin[4] = "ok"
    /\ tout.res = [result |-> "raise", calls |-> 3]

\* C21: a non-transient store error is never retried: when an attempt that
\* the wrapper makes ends in a non-retriable error, the wrapper raises at
\* that attempt and the operation is invoked no further, whatever later
\* attempts would have done.
C21_PermanentNeverRetried ==
    tout.fn \in RetryWrappers
        => \A i \in 1..max_attempts :
              (tin[i] = "permanent" /\ \A j \in 1..(i - 1) : tin[j] = "transient")
                 => tout.res = [result |-> "raise", calls |-> i]

\* a transient error, then a permanent one that is raised although a further
\* attempt would have succeeded
C21_Witness ==
    /\ tout.fn \in RetryWrappers
    /\ tin[1] = "transient"
    /\ tin[2] = "permanent"
    /\ tin[3] = "ok"
    /\ tout.res = [result |-> "raise", calls |-> 2]

\* C22: while the store is entirely unreachable a run aborts before it
\* processes any record: no record is translated, upserted or written to
\* the outbound directory, and the run returns to its caller as a failed
\* run.
C22_UnreachableAborts ==
    ~reachable =>
        /\ ev.kind \notin {"upsert_ok", "upsert_fail", "inbound_error", "outbound_error",
                           "write_ok", "write_fail", "mark_ok", "mark_fail"}
        /\ (ev.kind = "finish" => returned # Ok([overall_success |-> TRUE]))

\* C23: whenever execute_full_pipeline has returned, the adapter holds no
\* open client, whether or not the cleanup failed.
C23_ClosedOnReturn ==
    (pc = "idle" /\ returned # NoResult) => (returned.ok /\ client = "none")

\* C24: upsert_workorder on a record that lacks number fails the same way
\* on every call, whatever the store would have answered: the KeyError
\* escapes on the first invocation of the operation, nothing is retried, and
\* the collection is left as it was.
C24_NumberlessUpsertFails ==
    /\ \A workorder_data \in NumberlessInputs, outcomes \in AttemptSeqs :
          LET saved == upsert_workorder(collection, workorder_data, now, outcomes)
          IN  /\ saved.raised = "KeyError"
              /\ saved.calls = 1
              /\ saved.coll = collection
    /\ (ev.kind = "upsert_error" => ev.number = 0)

\* a record without number has just been refused by a collection that
\* holds records
C24_Witness ==
    /\ ev.kind = "upsert_error"
    /\ collection # {}

\* C25 (as stated): after an upsert or a mark-synced that failed past its
\* retry budget, the record of that number is not isSynced=true.
C25_FailedRecordIsDirty ==
    ev.kind \in {"upsert_fail", "mark_fail"} => ~IsSynced(collection, ev.number)

\* C25 (amended): an upsert or mark-synced that fails past its retry budget
\* leaves the collection as it was, so the record is dirty after a failed
\* mark-synced and is whatever it was (absent, dirty or clean) after a failed
\* upsert; the pass goes on with the remaining records; the inbound record
\* is still in its file and every invocation reads every file and, when its
\* read succeeds, every dirty record.
C25_FailureIsLocal ==
    [][ /\ (ev'.kind = "upsert_fail"
              => /\ collection' = collection
                 /\ files_data' = Tail(files_data)
                 /\ pc' = (IF files_data' = <<>> THEN "outread" ELSE "inbound")
                 /\ \E f \in DOMAIN inbound' : inbound'[f] = Head(files_data))
        /\ (ev'.kind = "mark_fail"
              => /\ collection' = collection
                 /\ Dirty(collection', ev'.number)
                 /\ workorders' = Tail(workorders)
                 /\ pc' = (IF workorders' = <<>> THEN "done" ELSE "outbound"))
        /\ (ev'.kind = "start"
              => {files_data'[i] : i \in 1..Len(files_data')}
                    = {inbound[f] : f \in DOMAIN inbound})
        /\ (ev'.kind = "read_ok"
              => \A n \in OrderNos : Dirty(collection, n) => n \in Numbers(workorders')) ]_vars

\* the upsert of a record that is clean in the store has just failed, with
\* another inbound record still to process
C25_Witness ==
    /\ ev.kind = "upsert_fail"
    /\ IsSynced(collection, ev.number)
    /\ files_data # <<>>

\* C26: number is a unique key that is never regenerated: the store holds
\* at most one record per number; a successful upsert of the inbound pass
\* stores the record under the orderNo of the inbound record it processed
\* and adds no other number; and the file workorder_{n}.json carries
\* orderNo n.
C26_NumberIsUniqueKey ==
    [][ /\ \A d \in collection' : Cardinality(Matching(collection', d["number"])) = 1
        /\ (ev'.kind = "upsert_ok"
              => /\ ev'.number = Head(files_data)["orderNo"]
                 /\ Matching(collection', ev'.number) # {}
                 /\ {d["number"] : d \in collection'}
                       = {d["number"] : d \in collection} \cup {ev'.number})
        /\ (ev'.kind # "upsert_ok"
              => {d["number"] : d \in collection'} = {d["number"] : d \in collection})
        /\ \A n \in OrderNos :
              Filename(n) \in DOMAIN outbound' => outbound'[Filename(n)]["orderNo"] = n ]_vars

\* two inbound files with the same orderNo and different contents have both
\* been upserted, then exported as one file
C26_Witness ==
    /\ \E f, g \in DOMAIN inbound :
          inbound[f] # inbound[g] /\ inbound[f]["orderNo"] = inbound[g]["orderNo"]
    /\ ev.kind = "mark_ok"
    /\ Cardinality(collection) = 1
    /\ DOMAIN outbound = {Filename(ev.number)}

\* C27: no step of an inbound or outbound pass removes a record from the
\* store: every number present before a step is present after it.
C27_NeverDeletes ==
    [][ \A d \in collection : Matching(collection', d["number"]) # {} ]_vars

\* in the second invocation, every order number in the store, one record
\* has just been marked
C27_Witness ==
    /\ now = MaxRuns
    /\ ev.kind = "mark_ok"
    /\ {d["number"] : d \in collection} = OrderNos

\* the stage of the record of number n in the store
Stage(coll, n) ==
    IF Matching(coll, n) = {} THEN "new"
    ELSE IF IsSynced(coll, n) THEN "clean" ELSE "dirty"

\* the outbound pass has read the record of number n and not yet dealt with it
Listed(n) == pc \in {"outbound", "mark"} /\ n \in Numbers(workorders)

\* C28: a record the outbound pass has read becomes clean (isSynced=true
\* with a syncedAt) in that pass unless its translation, its sink write or
\* its mark_as_synced fails; and the stage of a record changes only from new
\* to dirty and from clean to dirty by a successful upsert, and from dirty to
\* clean by a successful mark_as_synced that follows the successful write
\* of its file.
C28_Lifecycle ==
    /\ [][ \A n \in OrderNos :
              LET before == Stage(collection, n)
                  after == Stage(collection', n)
              IN  /\ before # after
                     => \/ /\ before \in {"new", "clean"}
                           /\ after = "dirty"
                           /\ ev' = Event("upsert_ok", n)
                        \/ /\ before = "dirty"
                           /\ after = "clean"
                           /\ ev = Event("write_ok", n)
                           /\ ev' = Event("mark_ok", n)
                  /\ after = "clean"
                     => \A d \in Matching(collection', n) : "syncedAt" \in DOMAIN d
                  /\ ev' = Event("upsert_ok", n) => after = "dirty"
                  /\ ev' = Event("mark_ok", n) => after = "clean" ]_vars
    /\ \A n \in OrderNos :
          Listed(n) ~> \/ Stage(collection, n) = "clean"
                       \/ /\ ev.kind \in {"outbound_error", "write_fail", "mark_fail"}
                          /\ ev.number = n

\* in its second invocation a record that the first invocation left clean
\* and the inbound pass made dirty again has just become clean again
C28_Witness ==
    /\ now = MaxRuns
    /\ ev.kind = "mark_ok"
    /\ \E d \in Matching(collection, ev.number) :
          d["isSynced"] = TRUE /\ d["syncedAt"].inst = <<"now", MaxRuns>>
    /\ returned = NoResult

\* a required field of the client record is absent or null
MissingRequired(r) ==
    \E f \in {"orderNo", "summary", "creationDate"} : f \notin DOMAIN r \/ r[f] = NullOf(f)

\* C29: the inbound pass checks the required fields before it translates: a
\* record in which orderNo, summary or creationDate is absent or null is
\* skipped as invalid, reaches neither the translator nor upsert_workorder,
\* and leaves the store as it was; no stored record carries a null number
\* or title.
C29_ValidatedBeforeTranslated ==
    [][ /\ (pc = "inbound" /\ MissingRequired(Head(files_data)))
              => /\ ev' = Event("invalid", 0)
                 /\ collection' = collection
                 /\ client' = client
                 /\ files_data' = Tail(files_data)
        /\ \A d \in collection' :
              d["number"] # NullOf("orderNo") /\ d["title"] # NullOf("summary") ]_vars

\* a record with a null required field has just been skipped by a pass
\* that had upserted another record
C29_Witness ==
    /\ ev.kind = "invalid"
    /\ \E f \in DOMAIN inbound :
          \E g \in {"orderNo", "summary", "creationDate"} :
              g \in DOMAIN inbound[f] /\ inbound[f][g] = NullOf(g)
    /\ pc = "outread"
    /\ \E d \in collection : d["updatedAt"].inst = <<"now", now>>

\* C30: a read_unsynced_workorders that succeeds returns, each once, exactly
\* the store records whose isSynced is not true: every record with
\* isSynced=false, every record without an isSynced field, and no record
\* with isSynced=true.
C30_ReadReturnsUnsynced ==
    ev.kind = "read_ok"
        => /\ \A d \in collection :
                 ("isSynced" \notin DOMAIN d \/ d["isSynced"] = FALSE)
                    <=> (\E i \in 1..Len(workorders) : workorders[i] = d)
           /\ \A i \in 1..Len(workorders) : workorders[i] \in collection
           /\ \A i, j \in 1..Len(workorders) : workorders[i] = workorders[j] => i = j

\* the store holds a record of each kind and the read returned two of them
C30_Witness ==
    /\ ev.kind = "read_ok"
    /\ \E d \in collection : "isSynced" \notin DOMAIN d
    /\ \E d \in collection : "isSynced" \in DOMAIN d /\ d["isSynced"] = FALSE
    /\ \E d \in collection : "isSynced" \in DOMAIN d /\ d["isSynced"] = TRUE
    /\ Len(workorders) = 2

----------------------------------------------------------------------------
(* Deletion date *)

\* the record has a deletedDate that is neither null nor empty
HasDeletedDate(c) == "deletedDate" \in DOMAIN c /\ c["deletedDate"] # NoDate

\* two optional date texts name the same instant, or are both null
SameOptionalDate(a, b) ==
    IF a = NoDate \/ b = NoDate THEN a = b
    ELSE /\ parse_datetime_safe(a[1]).ok
         /\ parse_datetime_safe(b[1]).ok
         /\ parse_datetime_safe(a[1]).val.inst = parse_datetime_safe(b[1]).val.inst

----------------------------------------------------------------------------
(* Metrics *)

\* C32: whatever calls the instance has served, inbound_saved is at most
\* inbound_files_read and outbound_synced is at most
\* outbound_workorders_read, so that both success rates lie between 0 and 1.
C32_RatesWithinUnit ==
    /\ metrics.inbound_saved <= metrics.inbound_files_read
    /\ metrics.outbound_synced <= metrics.outbound_workorders_read

\* C33: between two records of a pass every record processed so far was
\* counted once: for the inbound pass as invalid, saved or error, for the
\* outbound pass as synced or error.
C33_EveryFailureCounted ==
    /\ pc \in {"inbound", "outread", "outbound", "mark", "done"}
          => metrics.inbound_errors + metrics.inbound_saved
                + (metrics.inbound_files_read - Len(files_data) - metrics.inbound_files_valid)
                = metrics.inbound_files_read - Len(files_data)
    /\ pc \in {"outbound", "done"}
          => metrics.outbound_errors + metrics.outbound_synced
                = metrics.outbound_workorders_read - Len(workorders)

----------------------------------------------------------------------------
(* Outbound translation failures *)

\* the store record lacks a required field, has a status outside the enum
\* or a timestamp that is not a datetime
Untranslatable(d) ==
    \/ ~(TRACOS_REQUIRED \subseteq DOMAIN d)
    \/ d["status"] \notin VALID_TRACOS_STATUS
    \/ ~IsDatetime(d["createdAt"])
    \/ ~IsDatetime(d["updatedAt"])

\* C34: the step of the outbound pass on a record whose toExternal fails
\* writes no file, does not go on to mark_as_synced, leaves the store as it
\* is and hands the rest of the list to the pass; an untranslatable record
\* is never clean, no file is ever written for it and none is written under
\* the name workorder_N/A.json.
C34_TranslationFailureSkips ==
    [][/\ (pc = "outbound" /\ ~tracos_to_client(Head(workorders)).ok)
             => /\ outbound' = outbound
                /\ collection' = collection
                /\ pc' # "mark"
                /\ workorders' = Tail(workorders)
                /\ pc' = IF Tail(workorders) = <<>> THEN "done" ELSE "outbound"
                /\ ev'.kind = "outbound_error"
       /\ \A d \in collection' :
             Untranslatable(d)
                => /\ ~("isSynced" \in DOMAIN d /\ d["isSynced"] = TRUE)
                   /\ Filename(Get(d, "number", NA)) \notin DOMAIN outbound'
       /\ Filename(NA) \notin DOMAIN outbound']_vars

\* the pass skipped a record of invalid status and then wrote and marked
\* the other record it had read
C34_Witness ==
    /\ ev.kind = "mark_ok"
    /\ \E d \in collection : "number" \in DOMAIN d /\ d["status"] = "archived"
                                /\ d["isSynced"] = FALSE
                                /\ Filename(d["number"]) \notin DOMAIN outbound
    /\ \E d \in collection : "number" \notin DOMAIN d
    /\ metrics.outbound_errors = 2
    /\ metrics.outbound_synced = 1

----------------------------------------------------------------------------
(* Clean records and their outbound files *)

\* C35: with invocations one after another, every clean store record has
\* an outbound file workorder_{number}.json, and the file is the
\* translation of the record as it is stored now.
C35_CleanHasCurrentFile ==
    \A d \in collection :
        ("isSynced" \in DOMAIN d /\ d["isSynced"] = TRUE)
            => /\ Filename(d["number"]) \in DOMAIN outbound
               /\ tracos_to_client(d).ok
               /\ outbound[Filename(d["number"])] = tracos_to_client(d).val

\* a record upserted again by the second invocation is clean again, with
\* the file of its second version
C35_Witness ==
    /\ now = 2
    /\ ev.kind = "mark_ok"
    /\ \E d \in collection :
          /\ d["number"] = ev.number
          /\ d["isSynced"] = TRUE
          /\ d["updatedAt"].inst = <<"now", 2>>
          /\ d["status"] = "completed"
          /\ outbound[Filename(d["number"])]["isDone"] = TRUE

----------------------------------------------------------------------------
(* Two instances *)

\* C36: with two instances interleaving at store and file operations no
\* update is lost: a record is never clean while the version stored, put
\* there by an upsert since the last write of its file, differs from what
\* that file holds.
C36_NoLostUpdate ==
    \A d \in collection :
        ("isSynced" \in DOMAIN d /\ d["isSynced"] = TRUE /\ writes[d["number"]] = 0)
            => /\ Filename(d["number"]) \in DOMAIN outbound
               /\ outbound[Filename(d["number"])] = tracos_to_client(d).val

----------------------------------------------------------------------------
(* The connection *)

StoreOperations == {"upsert_ok", "upsert_fail", "upsert_error", "mark_ok", "mark_fail",
                    "mark_error", "read_ok", "read_fail"}

CloseCalls == {"close_ok", "close_error"}

\* C37: the adapter holds no client until a store operation creates one,
\* every store operation leaves it holding one client, a close call on a
\* closed connection changes nothing and raises nothing, and after any
\* close call the adapter holds no client, so that the next store
\* operation creates a fresh one.
C37_LazySingleton ==
    [][/\ ev.kind = "init" => client = "none"
       /\ (client = "none" /\ client' # "none") => ev'.kind \in StoreOperations
       /\ ev'.kind \in StoreOperations => client' = "open"
       /\ (ev'.kind \in CloseCalls /\ client = "none")
             => (client' = "none" /\ ev'.kind = "close_ok")
       /\ ev'.kind \in CloseCalls => client' = "none"]_vars

----------------------------------------------------------------------------
(* Read failure *)

\* C38: when read_unsynced_workorders fails after its retries the outbound
\* pass gets an empty list and ends; neither that step nor the rest of the
\* invocation writes a file or changes a store record, so every dirty
\* record is still dirty when the invocation is over.
C38_ReadFailureIsEmptyList ==
    [][/\ (pc = "outread" /\ ev'.kind = "read_fail")
             => /\ workorders' = <<>>
                /\ pc' = "done"
                /\ outbound' = outbound
                /\ collection' = collection
       /\ ev.kind = "read_fail"
             => /\ pc = "done"
                /\ outbound' = outbound
                /\ collection' = collection
                /\ pc' = "idle"]_vars

\* the read failed over a store that holds a translatable dirty record,
\* and the pass is over with no file written
C38_Witness ==
    /\ ev.kind = "read_fail"
    /\ pc = "done"
    /\ outbound = <<>>
    /\ \E d \in collection : ~Untranslatable(d) /\ d["isSynced"] = FALSE

====
